---- MODULE Spec2Model ----
(***************************************************************************)
(* Verification model of the Mastercam PDM backend core:                   *)
(*   - ImprovedFileLockManager (the repository mutex, a marker file        *)
(*     .git/repo.lock created with exclusive-create),                      *)
(*   - MetadataManager (the checkout registry, one .lock record per path), *)
(*   - GitRepository (the versioned store: stage / commit / push, resync,  *)
(*     check-in) and AdminConfigService.save_config.                       *)
(* Every caller is an OS process with its own lock manager object; file    *)
(* system calls are the atomic steps.                                      *)
(***************************************************************************)
EXTENDS Integers, Sequences, FiniteSets, TLC

\* ------------------------------------------------------------------ bounds
NumProcs == 2
TickSeconds == 151
MaxTime == 453

NumClients == 2
MaxCommits == 3
MaxVal == 2
MaxCalls == 1
MaxStoreTime == 151

\* ------------------------------------------------------- program constants
max_lock_age_seconds == 300
timeout == 15
max_break_attempts == 3

Procs == 1..NumProcs
NoPid == 0

VARIABLES
    now,          \* time.time(), whole seconds
    alive,        \* psutil.pid_exists(pid), per process
    pc,           \* position of each process inside __enter__ / __exit__
    start_time,   \* __enter__: start_time
    lock_file,    \* self.lock_file is an open handle
    pid,          \* the pid read from the marker (lock_data.get("pid"))
    stale,        \* why _is_stale_lock returned True ("no" when it did not)
    attempt,      \* force_break_lock: attempt
    marker,       \* the marker file at lock_file_path
    acquiredAt,   \* time at which the process created its marker
    overheld,     \* history: some holder stayed past max_lock_age_seconds
    diedHolding   \* history: some process died between acquire and release

\* The call each process is in
VARIABLES
    calls,        \* how many operations the process has started
    op,           \* the operation and its arguments and local variables
    failed,       \* an exception is propagating out of the with block
    ret           \* what the last operation returned

callVars == <<calls, op, failed, ret>>

mutexVars == <<now, alive, pc, start_time, lock_file, pid, stale, attempt,
               marker, acquiredAt, overheld, diedHolding, callVars>>

\* The checkout registry (MetadataManager)
VARIABLES
    records,      \* the files of the .locks directory, by lock file name
    rpc,          \* position of each registry caller
    rop,          \* the call a registry caller is in: kind, path, user, force
    rres,         \* what the caller's last call returned
    orphan,       \* the file the caller has open for writing was unlinked
    granted       \* history: the non-forced calls (caller, user, path) that
                  \*   create_lock told "success" for a lock file since the
                  \*   record was last removed or overridden by force

regVars == <<records, rpc, rop, rres, orphan, granted>>

\* The versioned store (GitRepository): one working copy on the host, shared
\* by the processes, and the remote it is cloned from
VARIABLES
    commits,      \* every commit made so far: parent, tree, author, message
    head,         \* the local branch
    origin,       \* the remote-tracking ref origin/<branch>
    remote,       \* the branch on the remote
    index,        \* the staging area
    worktree      \* the files of the working copy directory

storeVars == <<commits, head, origin, remote, index, worktree>>

\* The start of a backend process (GitRepository.__init__ and _init_repo)
VARIABLES
    boot          \* the initialisation: its position, the attempt, the state
                  \*   of the directory, and self.repo

\* The functions of GitRepository that depend on their arguments alone
VARIABLES
    arg,          \* the arguments of the call
    result        \* what it returned

bootVars == <<boot>>
funVars == <<arg, result>>

vars == <<mutexVars, regVars, storeVars, bootVars, funVars>>

\* What the mutex, the registry and the store never touch.
notMutex == <<regVars, storeVars, bootVars, funVars>>
notRegistry == <<mutexVars, storeVars, bootVars, funVars>>
notStore == <<regVars, bootVars, funVars>>

\* The state of the lock manager that the store operations leave alone.
lockState == <<now, alive, start_time, lock_file, pid, stale, attempt, marker,
               acquiredAt, overheld, diedHolding>>

\* No operation in progress. kind names the operation, phase the part of it
\* that runs ("publish", then "resync" for the pull_latest_changes that
\* follows a failed publish).
NoCall == [kind |-> "none", phase |-> "none", paths |-> {}, author |-> "",
           message |-> "", to_remove |-> {}, unchanged |-> FALSE,
           staged |-> FALSE, made |-> 0, pushes |-> 0, rev |-> 0,
           content |-> 0, before |-> <<>>, via |-> "none"]

\* No function has been called.
NoArg == [fn |-> "none"]

NoMarker == [exists |-> FALSE, owner |-> NoPid, written |-> FALSE, mtime |-> 0]

\* A process is inside the critical section between the return of __enter__
\* and the call of __exit__.
InCS(p) == pc[p] = "held"

\* A process has the mutex from the creation of its marker to its release.
Holding(p) == lock_file[p]

Holders == {p \in Procs : InCS(p)}

\* The marker belongs to p: p created the file that is at the path now.
OwnsMarker(p) == marker.exists /\ marker.owner = p

MutexInit ==
    /\ now = 0
    /\ alive = [p \in Procs |-> TRUE]
    /\ pc = [p \in Procs |-> "idle"]
    /\ start_time = [p \in Procs |-> 0]
    /\ lock_file = [p \in Procs |-> FALSE]
    /\ pid = [p \in Procs |-> NoPid]
    /\ stale = [p \in Procs |-> "no"]
    /\ attempt = [p \in Procs |-> 0]
    /\ marker = NoMarker
    /\ acquiredAt = [p \in Procs |-> 0]
    /\ overheld = FALSE
    /\ diedHolding = FALSE
    /\ calls = [p \in Procs |-> 0]
    /\ op = [p \in Procs |-> NoCall]
    /\ failed = [p \in Procs |-> FALSE]
    /\ ret = [p \in Procs |-> "none"]

\* ---------------------------------------------------------------- __enter__

\* __enter__ lines 71-73: start_time = time.time()
Enter(p) ==
    /\ UNCHANGED <<notMutex, callVars>>
    /\ pc[p] = "enter"
    /\ pc' = [pc EXCEPT ![p] = "loop"]
    /\ start_time' = [start_time EXCEPT ![p] = now]
    /\ stale' = [stale EXCEPT ![p] = "no"]
    /\ UNCHANGED <<now, alive, lock_file, pid, attempt, marker, acquiredAt,
                   overheld, diedHolding>>

\* line 76: the bounded wait
TimedOut(p) == now - start_time[p] > timeout

\* lines 75-78: loop head, raise TimeoutError once the bound has elapsed
LoopHead(p) ==
    /\ UNCHANGED <<notMutex, callVars>>
    /\ pc[p] = "loop"
    /\ pc' = [pc EXCEPT ![p] = IF TimedOut(p) THEN "timeout" ELSE "create"]
    /\ start_time' = [start_time EXCEPT ![p] = IF TimedOut(p) THEN 0 ELSE @]
    /\ stale' = [stale EXCEPT ![p] = IF TimedOut(p) THEN "no" ELSE @]
    /\ UNCHANGED <<now, alive, lock_file, pid, attempt, marker,
                   acquiredAt, overheld, diedHolding>>

\* line 82: open(lock_file_path, 'x'): exclusive creation of an empty file
Create(p) ==
    /\ UNCHANGED <<notMutex, callVars>>
    /\ pc[p] = "create"
    /\ IF marker.exists
          THEN /\ pc' = [pc EXCEPT ![p] = "stale_exists"]
               /\ stale' = [stale EXCEPT ![p] = "no"]
               /\ UNCHANGED <<marker, lock_file>>
          ELSE /\ marker' = [exists |-> TRUE, owner |-> p, written |-> FALSE,
                             mtime |-> now]
               /\ lock_file' = [lock_file EXCEPT ![p] = TRUE]
               /\ pc' = [pc EXCEPT ![p] = "write"]
               /\ UNCHANGED stale
    /\ acquiredAt' = [acquiredAt EXCEPT ![p] =
                          IF marker.exists THEN @ ELSE now]
    /\ UNCHANGED <<now, alive, start_time, pid, attempt, overheld, diedHolding>>

\* lines 83-92: write the lock info through the handle, flush, return self.
\* The write reaches the path only if the file p created is still there.
WriteInfo(p) ==
    /\ UNCHANGED <<notMutex, callVars>>
    /\ pc[p] = "write"
    /\ marker' = IF OwnsMarker(p)
                    THEN [marker EXCEPT !.written = TRUE, !.mtime = now]
                    ELSE marker
    /\ pc' = [pc EXCEPT ![p] = "held"]
    /\ start_time' = [start_time EXCEPT ![p] = 0]
    /\ stale' = [stale EXCEPT ![p] = "no"]
    /\ UNCHANGED <<now, alive, lock_file, pid, attempt, acquiredAt,
                   overheld, diedHolding>>

\* ----------------------------------------------------------- _is_stale_lock

\* A variant of StaleReturn in which a marker of a dead process is waited
\* for like a marker of a live one.
StaleReturn_sleeps(p, why) ==
    /\ stale' = [stale EXCEPT ![p] = why]
    /\ pc' = [pc EXCEPT ![p] = IF why \in {"no", "pid"} THEN "sleep"
                                                       ELSE "fb_kill"]
    /\ attempt' = [attempt EXCEPT ![p] = 0]

\* The result of _is_stale_lock is kept in stale[p] until the next creation
\* attempt; on True the caller goes on to force_break_lock (line 96), on
\* False to time.sleep(0.2) (line 98).
StaleReturn(p, why) ==
    /\ stale' = [stale EXCEPT ![p] = why]
    /\ pc' = [pc EXCEPT ![p] = IF why = "no" THEN "sleep" ELSE "fb_kill"]
    /\ attempt' = [attempt EXCEPT ![p] = 0]

\* line 106: if not self.lock_file_path.exists(): return False
StaleExists(p) ==
    /\ UNCHANGED <<notMutex, callVars>>
    /\ pc[p] = "stale_exists"
    /\ IF marker.exists
          THEN /\ pc' = [pc EXCEPT ![p] = "stale_stat"]
               /\ UNCHANGED <<stale, attempt>>
          ELSE StaleReturn(p, "no")
    /\ UNCHANGED <<now, alive, start_time, lock_file, pid, marker, acquiredAt,
                   overheld, diedHolding>>

\* lines 110-114: stat().st_mtime; FileNotFoundError is caught at line 123
StaleStat(p) ==
    /\ UNCHANGED <<notMutex, callVars>>
    /\ pc[p] = "stale_stat"
    /\ IF ~marker.exists
          THEN StaleReturn(p, "missing")
          ELSE IF now - marker.mtime > max_lock_age_seconds
                  THEN StaleReturn(p, "age")
                  ELSE /\ pc' = [pc EXCEPT ![p] = "stale_read"]
                       /\ UNCHANGED <<stale, attempt>>
    /\ UNCHANGED <<now, alive, start_time, lock_file, pid, marker, acquiredAt,
                   overheld, diedHolding>>

\* lines 117-118: json.loads(read_text()); an empty file raises
\* JSONDecodeError, a vanished one FileNotFoundError (both line 123)
StaleRead(p) ==
    /\ UNCHANGED <<notMutex, callVars>>
    /\ pc[p] = "stale_read"
    /\ IF ~marker.exists
          THEN StaleReturn(p, "missing") /\ UNCHANGED pid
          ELSE IF ~marker.written
                  THEN StaleReturn(p, "unreadable") /\ UNCHANGED pid
                  ELSE /\ pid' = [pid EXCEPT ![p] = marker.owner]
                       /\ pc' = [pc EXCEPT ![p] = "stale_pid"]
                       /\ UNCHANGED <<stale, attempt>>
    /\ UNCHANGED <<now, alive, start_time, lock_file, marker, acquiredAt,
                   overheld, diedHolding>>

\* lines 119-122 and 128: psutil.pid_exists(pid)
StalePid(p) ==
    /\ UNCHANGED <<notMutex, callVars>>
    /\ pc[p] = "stale_pid"
    /\ StaleReturn(p, IF alive[pid[p]] THEN "no" ELSE "pid")
    /\ pid' = [pid EXCEPT ![p] = NoPid]
    /\ UNCHANGED <<now, alive, start_time, lock_file, marker, acquiredAt,
                   overheld, diedHolding>>

\* line 98: time.sleep(0.2), then the loop head
Sleep(p) ==
    /\ UNCHANGED <<notMutex, callVars>>
    /\ pc[p] = "sleep"
    /\ pc' = [pc EXCEPT ![p] = "loop"]
    /\ UNCHANGED <<now, alive, start_time, lock_file, pid, stale, attempt,
                   marker, acquiredAt, overheld, diedHolding>>

\* --------------------------------------------------------- force_break_lock

\* What terminating (or the crash of) process q leaves behind: its handles
\* are closed by the OS, its marker file stays on disk.
Dead(f, q) == [f EXCEPT ![q] = "dead"]

\* _kill_lock_holder lines 54-58: read the pid recorded in the marker; a
\* missing file returns, an unparsable one is caught at line 66
KillRead(p) ==
    /\ UNCHANGED <<notMutex, callVars>>
    /\ pc[p] = "fb_kill"
    /\ IF marker.exists /\ marker.written
          THEN /\ pid' = [pid EXCEPT ![p] = marker.owner]
               /\ pc' = [pc EXCEPT ![p] = "fb_terminate"]
          ELSE /\ pc' = [pc EXCEPT ![p] = "fb_unlink"]
               /\ UNCHANGED pid
    /\ UNCHANGED <<now, alive, start_time, lock_file, stale, attempt, marker,
                   acquiredAt, overheld, diedHolding>>

\* _kill_lock_holder lines 59-65: terminate the recorded process if it
\* exists. proc.wait(timeout=2) may expire with the process still running
\* (TimeoutExpired is passed over), so the process dies or survives.
KillTerminate(p) ==
    /\ UNCHANGED <<notMutex, callVars>>
    /\ pc[p] = "fb_terminate"
    /\ LET q == pid[p] IN
       \/ /\ alive[q]
          /\ alive' = [alive EXCEPT ![q] = FALSE]
          /\ pc' = [Dead(pc, q) EXCEPT ![p] = "fb_unlink"]
          /\ lock_file' = [lock_file EXCEPT ![q] = FALSE]
          /\ diedHolding' = (diedHolding \/ Holding(q))
       \/ /\ pc' = [pc EXCEPT ![p] = "fb_unlink"]
          /\ UNCHANGED <<alive, lock_file, diedHolding>>
    /\ pid' = [pid EXCEPT ![p] = NoPid]
    /\ UNCHANGED <<now, start_time, stale, attempt, marker, acquiredAt,
                   overheld>>

\* force_break_lock lines 33-50: close the own handle, unlink the marker if
\* it exists. A PermissionError is retried (lines 40-43) until the third
\* attempt has failed; the result is ignored by __enter__ (lines 96-97),
\* which goes back to the loop head.
BreakUnlink(p) ==
    /\ UNCHANGED <<notMutex, callVars>>
    /\ pc[p] = "fb_unlink"
    /\ lock_file' = [lock_file EXCEPT ![p] = FALSE]
    /\ \/ /\ marker' = NoMarker
          /\ pc' = [pc EXCEPT ![p] = "loop"]
          /\ attempt' = [attempt EXCEPT ![p] = 0]
       \/ /\ marker.exists
          /\ UNCHANGED marker
          /\ IF attempt[p] < max_break_attempts - 1
                THEN /\ attempt' = [attempt EXCEPT ![p] = @ + 1]
                     /\ pc' = [pc EXCEPT ![p] = "fb_kill"]
                ELSE /\ attempt' = [attempt EXCEPT ![p] = 0]
                     /\ pc' = [pc EXCEPT ![p] = "loop"]
    /\ UNCHANGED <<now, alive, start_time, pid, stale, acquiredAt, overheld,
                   diedHolding>>

\* ----------------------------------------------------------------- __exit__

\* Where a process goes when it leaves its with block, normally or (exc) by
\* an exception, and what the operation then returns:
\*   commit_and_push lines 243-246: on an exception, pull_latest_changes()
\*     and return False; lines 237 and 242: return True
\*   pull_latest_changes lines 215-216: the exception is logged
\*   download_lfs_file lines 264-268, revert_local_file_changes lines 449-450
\*   _init_repo lines 112-118: the with block returns the repository or an
\*     exception leaves it
AfterWith(p, exc) ==
    IF op[p].kind = "commit_and_push" /\ op[p].phase = "publish" /\ exc
       THEN /\ pc' = [pc EXCEPT ![p] = "enter"]
            /\ op' = [op EXCEPT ![p].phase = "resync"]
            /\ UNCHANGED ret
       ELSE /\ pc' = [pc EXCEPT ![p] = "done"]
            /\ UNCHANGED op
            /\ ret' = [ret EXCEPT ![p] =
                  CASE op[p].kind = "commit_and_push" ->
                          IF op[p].phase = "publish" THEN "True" ELSE "False"
                    [] op[p].kind = "download_lfs_file" ->
                          IF exc THEN "False" ELSE "True"
                    [] op[p].kind = "_init_repo" ->
                          IF exc THEN "raised" ELSE "repo"
                    [] OTHER -> "None"]

\* __exit__ lines 130-140: close the handle; unlink the path if it exists.
\* An OSError of the unlink is logged and the marker stays.
Exit(p) ==
    /\ UNCHANGED notMutex
    /\ pc[p] = "exit"
    /\ lock_file' = [lock_file EXCEPT ![p] = FALSE]
    /\ \/ marker' = NoMarker
       \/ marker.exists /\ UNCHANGED marker
    /\ AfterWith(p, failed[p])
    /\ failed' = [failed EXCEPT ![p] = FALSE]
    /\ UNCHANGED calls
    /\ acquiredAt' = [acquiredAt EXCEPT ![p] = 0]
    /\ UNCHANGED <<now, alive, start_time, pid, stale, attempt, overheld,
                   diedHolding>>

\* The TimeoutError of line 77 leaves __enter__: __exit__ is not run, the
\* operation's except clause is.
Unwind(p) ==
    /\ UNCHANGED notMutex
    /\ pc[p] = "timeout"
    /\ AfterWith(p, TRUE)
    /\ UNCHANGED <<now, alive, start_time, lock_file, pid, stale, attempt,
                   marker, acquiredAt, overheld, diedHolding, failed, calls>>

\* The operation has returned ret[p] to its caller; the process is free for
\* the next call.
Finish(p) ==
    /\ UNCHANGED <<notMutex, lockState>>
    /\ pc[p] = "done"
    /\ op[p].kind # "_init_repo"
    /\ pc' = [pc EXCEPT ![p] = "idle"]
    /\ op' = [op EXCEPT ![p] = NoCall]
    /\ ret' = [ret EXCEPT ![p] = "none"]
    /\ UNCHANGED <<failed, calls>>

\* A caller uses the lock manager on its own: with lock_manager: ...
Acquire(p) ==
    /\ UNCHANGED notMutex
    /\ pc[p] = "idle"
    /\ pc' = [pc EXCEPT ![p] = "enter"]
    /\ op' = [op EXCEPT ![p] = [NoCall EXCEPT !.kind = "with"]]
    /\ ret' = [ret EXCEPT ![p] = "none"]
    /\ UNCHANGED <<now, alive, start_time, lock_file, pid, stale, attempt,
                   marker, acquiredAt, overheld, diedHolding, failed, calls>>

\* ... and reaches the end of the with block
Release(p) ==
    /\ UNCHANGED notMutex
    /\ pc[p] = "held"
    /\ op[p].kind = "with"
    /\ pc' = [pc EXCEPT ![p] = "exit"]
    /\ UNCHANGED <<now, alive, start_time, lock_file, pid, stale, attempt,
                   marker, acquiredAt, overheld, diedHolding, callVars>>

\* -------------------------------------------------------------- environment

\* Time passes. A holder that is still holding past the age ceiling is
\* recorded.
Tick ==
    /\ UNCHANGED <<notMutex, callVars>>
    /\ now + TickSeconds <= MaxTime
    /\ now' = now + TickSeconds
    /\ overheld' = (overheld \/ \E p \in Procs :
                        Holding(p) /\ now' - acquiredAt[p] > max_lock_age_seconds)
    /\ UNCHANGED <<alive, pc, start_time, lock_file, pid, stale, attempt,
                   marker, acquiredAt, diedHolding>>

\* A process dies at any point of its run (crash, kill, power loss).
Crash(p) ==
    /\ UNCHANGED <<notMutex, callVars>>
    /\ alive[p]
    /\ alive' = [alive EXCEPT ![p] = FALSE]
    /\ pc' = Dead(pc, p)
    /\ lock_file' = [lock_file EXCEPT ![p] = FALSE]
    /\ diedHolding' = (diedHolding \/ Holding(p))
    /\ UNCHANGED <<now, start_time, pid, stale, attempt, marker, acquiredAt,
                   overheld>>

MutexStep(p) ==
    \/ Enter(p)
    \/ LoopHead(p)
    \/ Create(p)
    \/ WriteInfo(p)
    \/ StaleExists(p)
    \/ StaleStat(p)
    \/ StaleRead(p)
    \/ StalePid(p)
    \/ Sleep(p)
    \/ KillRead(p)
    \/ KillTerminate(p)
    \/ BreakUnlink(p)
    \/ Exit(p)
    \/ Unwind(p)
    \/ Finish(p)

MutexNext ==
    \/ Tick
    \/ \E p \in Procs : MutexStep(p) \/ Acquire(p) \/ Release(p) \/ Crash(p)

\* =========================================================================
\* MetadataManager: the checkout registry
\* =========================================================================

Clients == 1..NumClients
Users == {"alice", "bob"}

\* force=True is the administrative override; Admin is the administrator's
\* name (admin.py: request.admin_user).
Admin == "admin"

\* The user each caller acts for.
UserOf(c) == IF c = 1 THEN "alice" ELSE "bob"

\* Logical paths, as sequences of characters.
Paths == { <<"a", ".", "m">>, <<"a", "_", "m">>, <<"b", ".", "m">> }

\* _get_lock_file_path line 157: the path separator and the dot are both
\* replaced by an underscore.
Sanitize(path) ==
    [i \in DOMAIN path |-> IF path[i] \in {"/", "."} THEN "_" ELSE path[i]]

\* _get_lock_file_path line 158
LockName(path) == Sanitize(path) \o <<".", "l", "o", "c", "k">>

LockNames == {LockName(path) : path \in Paths}

NoRecord == [state |-> "absent", file |-> <<>>, user |-> ""]
\* A call or user action: its arguments and, for get_all_locks, the lock files that the
\* directory listing gave and that are still to be read (todo) and the
\* records appended to active_locks (found).
\* For a user action, checked: the holder check has passed; published: a
\* publish of the action has completed.
NoOp == [kind |-> "none", path |-> <<>>, user |-> "", force |-> FALSE,
         todo |-> {}, found |-> {}, checked |-> FALSE, published |-> FALSE]

RegInit ==
    /\ records = [n \in LockNames |-> NoRecord]
    /\ rpc = [c \in Clients |-> "idle"]
    /\ rop = [c \in Clients |-> NoOp]
    /\ rres = [c \in Clients |-> "none"]
    /\ orphan = [c \in Clients |-> FALSE]
    /\ granted = [n \in LockNames |-> {}]

\* The lock file of the call that c is in.
NameOf(c) == LockName(rop[c].path)

\* Path.exists()
Exists(n) == records[n].state # "absent"

\* json.loads(read_text()) returns: the file holds a JSON document. A record
\* that lacks its "timestamp" key, or whose timestamp is not an ISO date, is
\* still a JSON document.
Parses(n) == records[n].state \in {"ok", "no_timestamp", "bad_timestamp"}

\* Path.unlink(missing_ok=True): the name is removed; a caller that has the
\* file open for writing keeps writing to the unlinked file.
Unlinked(n) ==
    /\ records' = [records EXCEPT ![n] = NoRecord]
    /\ orphan' = [c \in Clients |->
                     orphan[c] \/ (rpc[c] = "cl_write" /\ NameOf(c) = n)]
    /\ granted' = [granted EXCEPT ![n] = {}]

\* The call returns res to its caller.
Return(c, res) ==
    /\ rpc' = [rpc EXCEPT ![c] = "idle"]
    /\ rres' = [rres EXCEPT ![c] = res]
    /\ rop' = [rop EXCEPT ![c] = NoOp]

\* A caller enters create_lock(file_path, user, force)
CallCreateLock(c, path, user, force) ==
    /\ UNCHANGED notRegistry
    /\ rpc[c] = "idle"
    /\ rpc' = [rpc EXCEPT ![c] = "cl_check"]
    /\ rop' = [rop EXCEPT ![c] = [NoOp EXCEPT !.kind = "create_lock",
                                               !.path = path, !.user = user,
                                               !.force = force]]
    /\ rres' = [rres EXCEPT ![c] = "none"]
    /\ UNCHANGED <<records, orphan, granted>>

\* create_lock lines 162-166: if lock_file.exists() and not force: return None
CreateLockCheck(c) ==
    /\ UNCHANGED notRegistry
    /\ rpc[c] = "cl_check"
    /\ IF Exists(NameOf(c)) /\ ~rop[c].force
          THEN Return(c, "None")
          ELSE rpc' = [rpc EXCEPT ![c] = "cl_open"] /\ UNCHANGED <<rres, rop>>
    /\ UNCHANGED <<records, orphan, granted>>

\* create_lock line 173, write_text: open(mode='w') creates the file or
\* truncates the one that is there
CreateLockOpen(c) ==
    /\ UNCHANGED notRegistry
    /\ rpc[c] = "cl_open"
    /\ records' = [records EXCEPT ![NameOf(c)] =
                      [state |-> "empty", file |-> <<>>, user |-> ""]]
    /\ rpc' = [rpc EXCEPT ![c] = "cl_write"]
    /\ orphan' = [orphan EXCEPT ![c] = FALSE]
    /\ UNCHANGED <<rop, rres, granted>>

\* create_lock lines 168-174, write_text: write the record through the open
\* handle; return lock_file
CreateLockWrite(c) ==
    /\ UNCHANGED notRegistry
    /\ rpc[c] = "cl_write"
    /\ records' = IF orphan[c]
                     THEN records
                     ELSE [records EXCEPT ![NameOf(c)] =
                              [state |-> "ok", file |-> rop[c].path,
                               user |-> rop[c].user]]
    /\ orphan' = [orphan EXCEPT ![c] = FALSE]
    /\ granted' = [granted EXCEPT ![NameOf(c)] =
                      IF rop[c].force
                         THEN {}
                         ELSE @ \cup {<<c, rop[c].user, rop[c].path>>}]
    /\ Return(c, "ok")

\* release_lock lines 176-178: unlink(missing_ok=True)
ReleaseLock(c, path) ==
    /\ UNCHANGED notRegistry
    /\ rpc[c] = "idle"
    /\ Unlinked(LockName(path))
    /\ Return(c, "none")

\* A caller enters get_lock_info(file_path)
CallGetLockInfo(c, path) ==
    /\ UNCHANGED notRegistry
    /\ rpc[c] = "idle"
    /\ rpc' = [rpc EXCEPT ![c] = "gi_exists"]
    /\ rop' = [rop EXCEPT ![c] = [NoOp EXCEPT !.kind = "get_lock_info",
                                               !.path = path]]
    /\ rres' = [rres EXCEPT ![c] = "none"]
    /\ UNCHANGED <<records, orphan, granted>>

\* get_lock_info lines 182-184: if not lock_file.exists(): return None
GetLockInfoExists(c) ==
    /\ UNCHANGED notRegistry
    /\ rpc[c] = "gi_exists"
    /\ IF Exists(NameOf(c))
          THEN rpc' = [rpc EXCEPT ![c] = "gi_read"] /\ UNCHANGED <<rres, rop>>
          ELSE Return(c, "None")
    /\ UNCHANGED <<records, orphan, granted>>

\* get_lock_info lines 186-189: json.loads(read_text()); a record that is
\* gone or does not parse goes on to the unlink
GetLockInfoRead(c) ==
    /\ UNCHANGED notRegistry
    /\ rpc[c] = "gi_read"
    /\ IF Parses(NameOf(c))
          THEN Return(c, records[NameOf(c)].user)
          ELSE rpc' = [rpc EXCEPT ![c] = "gi_unlink"] /\ UNCHANGED <<rres, rop>>
    /\ UNCHANGED <<records, orphan, granted>>

\* get_lock_info without the unlink of line 190
GetLockInfoUnlink_keeps(c) ==
    /\ UNCHANGED notRegistry
    /\ rpc[c] = "gi_unlink"
    /\ Return(c, "None")
    /\ UNCHANGED <<records, orphan, granted>>

\* get_lock_info lines 190-191: unlink(missing_ok=True); return None
GetLockInfoUnlink(c) ==
    /\ UNCHANGED notRegistry
    /\ rpc[c] = "gi_unlink"
    /\ Unlinked(NameOf(c))
    /\ Return(c, "None")

\* get_all_locks lines 195-200: the directory listing, glob('*.lock')
CallGetAllLocks(c) ==
    /\ UNCHANGED notRegistry
    /\ rpc[c] = "idle"
    /\ rpc' = [rpc EXCEPT ![c] = "ga_loop"]
    /\ rop' = [rop EXCEPT ![c] = [NoOp EXCEPT !.kind = "get_all_locks",
                                               !.todo = {n \in LockNames :
                                                            Exists(n)}]]
    /\ rres' = [rres EXCEPT ![c] = "none"]
    /\ UNCHANGED <<records, orphan, granted>>

\* get_all_locks lines 200-210, one turn of the loop over the listed files,
\* in the order the directory gives them. Only JSONDecodeError and KeyError
\* are caught (line 208): the FileNotFoundError of a file removed since the
\* listing and the ValueError of datetime.fromisoformat on a malformed
\* timestamp leave the method.
GetAllLocksRead(c) ==
    /\ UNCHANGED notRegistry
    /\ rpc[c] = "ga_loop"
    /\ \E n \in rop[c].todo :
          CASE records[n].state \in {"absent", "bad_timestamp"} ->
                  Return(c, "raised")
            [] records[n].state \in {"empty", "no_timestamp"} ->
                  /\ rop' = [rop EXCEPT ![c].todo = @ \ {n}]
                  /\ UNCHANGED <<rpc, rres>>
            [] records[n].state = "ok" ->
                  /\ rop' = [rop EXCEPT ![c].todo = @ \ {n},
                                        ![c].found = @ \cup {n}]
                  /\ UNCHANGED <<rpc, rres>>
    /\ UNCHANGED <<records, orphan, granted>>

\* get_all_locks line 211: return active_locks (the records in found)
GetAllLocksReturn(c) ==
    /\ UNCHANGED notRegistry
    /\ rpc[c] = "ga_loop"
    /\ rop[c].todo = {}
    /\ Return(c, "list")
    /\ UNCHANGED <<records, orphan, granted>>

\* A lock file is damaged on disk: what get_lock_info and get_all_locks call
\* a corrupted lock file. It no longer parses, or it parses and has lost its
\* "timestamp" key, or its timestamp is no longer an ISO date.
CorruptKinds == {"empty", "no_timestamp", "bad_timestamp"}

Corrupt(n, kind) ==
    /\ UNCHANGED notRegistry
    /\ records[n].state = "ok"
    /\ records' = [records EXCEPT ![n].state = kind]
    /\ UNCHANGED <<rpc, rop, rres, orphan, granted>>

RegStep(c) ==
    \/ \E path \in Paths, force \in BOOLEAN :
          CallCreateLock(c, path, IF force THEN Admin ELSE UserOf(c), force)
    \/ CreateLockCheck(c)
    \/ CreateLockOpen(c)
    \/ CreateLockWrite(c)
    \/ \E path \in Paths : ReleaseLock(c, path)
    \/ \E path \in Paths : CallGetLockInfo(c, path)
    \/ GetLockInfoExists(c)
    \/ GetLockInfoRead(c)
    \/ GetLockInfoUnlink(c)

RegNext == \E c \in Clients : RegStep(c)

\* The registry with damaged records and the listing of all checkouts. The
\* calls are made for two paths with different lock files.
ScanPaths == { <<"a", ".", "m">>, <<"b", ".", "m">> }

ScanStep(c) ==
    \/ \E path \in ScanPaths : CallCreateLock(c, path, UserOf(c), FALSE)
    \/ CreateLockCheck(c)
    \/ CreateLockOpen(c)
    \/ CreateLockWrite(c)
    \/ \E path \in ScanPaths : CallGetLockInfo(c, path)
    \/ GetLockInfoExists(c)
    \/ GetLockInfoRead(c)
    \/ GetLockInfoUnlink(c)
    \/ CallGetAllLocks(c)
    \/ GetAllLocksRead(c)
    \/ GetAllLocksReturn(c)

ScanNext ==
    \/ \E n \in LockNames, kind \in CorruptKinds : Corrupt(n, kind)
    \/ \E c \in Clients : ScanStep(c)

\* =========================================================================
\* GitRepository: the versioned store, and AdminConfigService.save_config
\* =========================================================================

\* The files of the working copy: an artifact, its side-car metadata record
\* (<artifact>.meta.json) and one further file (.pdm-config.json, or any
\* other file of the directory).
Artifact == "f"
Meta == "f.meta"
Other == "x"
StorePaths == {Artifact, Meta, Other}

\* A file is absent (0) or has one of MaxVal contents. The content of the
\* metadata record is its revision; the k-th content of the artifact is the
\* one checked in as revision k.
Absent == 0
Vals == 0..MaxVal

\* The user each process acts for, and the commit message it gives.
AuthorOf(p) == IF p = 1 THEN "alice" ELSE "bob"
Messages == {"edit"}
PathLists == { {Artifact, Meta}, {Other} }

InitTree == [path \in StorePaths |-> IF path = Other THEN Absent ELSE 1]

StoreInit ==
    /\ commits = << [parent |-> 0, tree |-> InitTree, author |-> "init",
                     message |-> "init"] >>
    /\ head = 1
    /\ origin = 1
    /\ remote = 1
    /\ index = InitTree
    /\ worktree = InitTree

Tree(c) == commits[c].tree

\* Commit a is b or an ancestor of b.
RECURSIVE IsAncestor(_, _)
IsAncestor(a, b) ==
    IF b = 0 THEN FALSE
    ELSE IF a = b THEN TRUE
    ELSE IsAncestor(a, commits[b].parent)

Goto(p, l) == pc' = [pc EXCEPT ![p] = l]

\* An exception leaves the with block: __exit__ runs, then the except clause.
Raise(p) ==
    /\ pc' = [pc EXCEPT ![p] = "exit"]
    /\ failed' = [failed EXCEPT ![p] = TRUE]

Call(p, kind, phase, paths, author, message) ==
    /\ boot.repo = "set"
    /\ pc[p] = "idle"
    /\ calls[p] < MaxCalls
    /\ calls' = [calls EXCEPT ![p] = @ + 1]
    /\ op' = [op EXCEPT ![p] = [NoCall EXCEPT !.kind = kind, !.phase = phase,
                                   !.paths = paths, !.author = author,
                                   !.message = message]]
    /\ ret' = [ret EXCEPT ![p] = "none"]

\* ---------------------------------------------------------- commit_and_push

\* commit_and_push lines 218-222: the repository is open; with lock_manager
CallCommitAndPush(p, paths, message, author) ==
    /\ UNCHANGED <<notStore, lockState, storeVars, failed>>
    /\ Call(p, "commit_and_push", "publish", paths, author, message)
    /\ Goto(p, "enter")

InPublishAt(p, l) ==
    pc[p] = l /\ op[p].kind = "commit_and_push" /\ op[p].phase = "publish"

\* lines 225-231: the listed paths that exist on disk are added to the index
StageAdd(p) ==
    /\ UNCHANGED <<notStore, lockState, calls, failed, ret>>
    /\ InPublishAt(p, "held")
    /\ LET to_add == {path \in op[p].paths : worktree[path] # Absent} IN
       /\ index' = [path \in StorePaths |->
                       IF path \in to_add THEN worktree[path] ELSE index[path]]
       /\ op' = [op EXCEPT ![p].to_remove = op[p].paths \ to_add,
                           ![p].unchanged = \A path \in op[p].paths :
                                               worktree[path] = Tree(head)[path]]
    /\ Goto(p, "cp_remove")
    /\ UNCHANGED <<commits, head, origin, remote, worktree>>

\* lines 232-233: the listed paths that are not on disk are removed from the
\* index; git rm fails on a path the index does not have
StageRemove(p) ==
    /\ UNCHANGED <<notStore, lockState, calls, ret>>
    /\ InPublishAt(p, "cp_remove")
    /\ IF \E path \in op[p].to_remove : index[path] = Absent
          THEN Raise(p) /\ UNCHANGED index
          ELSE /\ index' = [path \in StorePaths |->
                              IF path \in op[p].to_remove THEN Absent
                                                           ELSE index[path]]
               /\ Goto(p, "cp_dirty")
               /\ UNCHANGED failed
    /\ UNCHANGED <<commits, head, origin, remote, worktree, op>>

\* Repo.is_dirty(untracked_files=True): the index differs from HEAD, or a
\* tracked file differs from the index, or there is an untracked file
IsDirty == index # Tree(head) \/ worktree # index

\* lines 235-237: if not is_dirty: return True
CheckDirty(p) ==
    /\ UNCHANGED <<notStore, lockState, calls, storeVars, failed, ret>>
    /\ InPublishAt(p, "cp_dirty")
    /\ op' = [op EXCEPT ![p].staged = \E path \in op[p].paths :
                                          index[path] # Tree(head)[path]]
    /\ Goto(p, IF IsDirty THEN "cp_commit" ELSE "exit")

\* line 239: index.commit(message, author=author)
Commit(p) ==
    /\ UNCHANGED <<notStore, lockState, calls, ret>>
    /\ InPublishAt(p, "cp_commit")
    /\ \/ /\ Len(commits) < MaxCommits
          /\ commits' = Append(commits, [parent |-> head, tree |-> index,
                                         author |-> op[p].author,
                                         message |-> op[p].message])
          /\ head' = Len(commits) + 1
          /\ op' = [op EXCEPT ![p].made = Len(commits) + 1]
          /\ Goto(p, "cp_push")
          /\ UNCHANGED failed
       \/ Raise(p) /\ UNCHANGED <<commits, head, op>>
    /\ UNCHANGED <<origin, remote, index, worktree>>

\* line 240: origin.push(). The remote takes the branch when it fast-forwards
\* (and the remote-tracking ref follows); the push can raise; and it can
\* return a result that says rejected or failed (Remote.push raises only
\* through raise_if_error(), which is not called), leaving the remote as it
\* was. lines 241-242: return True
Push(p) ==
    /\ UNCHANGED <<notStore, lockState, calls, ret>>
    /\ InPublishAt(p, "cp_push")
    /\ \/ /\ IsAncestor(remote, head)
          /\ remote' = head
          /\ origin' = head
          /\ op' = [op EXCEPT ![p].pushes = 1]
          /\ Goto(p, "exit")
          /\ UNCHANGED failed
       \/ /\ Raise(p)
          /\ op' = [op EXCEPT ![p].pushes = 1]
          /\ UNCHANGED <<remote, origin>>
       \/ /\ op' = [op EXCEPT ![p].pushes = 1]
          /\ Goto(p, "exit")
          /\ UNCHANGED <<remote, origin, failed>>
    /\ UNCHANGED <<commits, head, index, worktree>>

\* ------------------------------------------------------ pull_latest_changes

\* pull_latest_changes lines 206-210
CallPullLatestChanges(p) ==
    /\ UNCHANGED <<notStore, lockState, storeVars, failed>>
    /\ Call(p, "pull_latest_changes", "resync", {}, "", "")
    /\ Goto(p, "enter")

\* line 211: origin.fetch()
Fetch(p) ==
    /\ UNCHANGED <<notStore, lockState, calls, ret, op>>
    /\ pc[p] = "held"
    /\ op[p].phase = "resync"
    /\ \/ origin' = remote /\ Goto(p, "pl_reset") /\ UNCHANGED failed
       \/ Raise(p) /\ UNCHANGED origin
    /\ UNCHANGED <<commits, head, remote, index, worktree>>

\* lines 212-213: git reset --hard origin/<branch>: the branch, the index and
\* every tracked file become those of the remote-tracking ref; untracked
\* files stay
Reset(p) ==
    /\ UNCHANGED <<notStore, lockState, calls, ret, op, failed>>
    /\ pc[p] = "pl_reset"
    /\ head' = origin
    /\ index' = Tree(origin)
    /\ worktree' = [path \in StorePaths |->
                       IF index[path] # Absent \/ Tree(head)[path] # Absent
                             \/ Tree(origin)[path] # Absent
                          THEN Tree(origin)[path]
                          ELSE worktree[path]]
    /\ Goto(p, "exit")
    /\ UNCHANGED <<commits, origin, remote>>

\* ------------------------------------------ revert / download_lfs_file

\* revert_local_file_changes lines 441-446
CallRevertLocalFileChanges(p) ==
    /\ UNCHANGED <<notStore, lockState, storeVars, failed>>
    /\ Call(p, "revert_local_file_changes", "revert", {Artifact}, "", "")
    /\ Goto(p, "enter")

\* line 447: git checkout HEAD -- file_path; fails on a path HEAD lacks
Checkout(p) ==
    /\ UNCHANGED <<notStore, lockState, calls, ret, op>>
    /\ pc[p] = "held"
    /\ op[p].kind = "revert_local_file_changes"
    /\ IF Tree(head)[Artifact] = Absent
          THEN Raise(p) /\ UNCHANGED <<index, worktree>>
          ELSE /\ index' = [index EXCEPT ![Artifact] = Tree(head)[Artifact]]
               /\ worktree' = [worktree EXCEPT
                                  ![Artifact] = Tree(head)[Artifact]]
               /\ Goto(p, "exit")
               /\ UNCHANGED failed
    /\ UNCHANGED <<commits, head, origin, remote>>

\* download_lfs_file lines 257-261
CallDownloadLfsFile(p) ==
    /\ UNCHANGED <<notStore, lockState, storeVars, failed>>
    /\ Call(p, "download_lfs_file", "lfs", {Artifact}, "", "")
    /\ Goto(p, "enter")

\* line 262: git lfs pull --include file_path: the pointer file is replaced
\* by the content it stands for (the same blob for git), or the pull fails
LfsPull(p) ==
    /\ UNCHANGED <<notStore, lockState, calls, storeVars, ret, op>>
    /\ pc[p] = "held"
    /\ op[p].kind = "download_lfs_file"
    /\ \/ Goto(p, "exit") /\ UNCHANGED failed
       \/ Raise(p)

\* --------------------------------- save_file, delete_file_and_metadata

\* save_file lines 309-313: write_bytes into the working copy
SaveFile(p, v) ==
    /\ UNCHANGED <<notStore, lockState, failed>>
    /\ Call(p, "save_file", "none", {Other}, "", "")
    /\ Goto(p, "done")
    /\ worktree' = [worktree EXCEPT ![Other] = v]
    /\ UNCHANGED <<commits, head, origin, remote, index>>

\* delete_file_and_metadata lines 452-461: unlink the artifact
CallDeleteFileAndMetadata(p) ==
    /\ UNCHANGED <<notStore, lockState, failed>>
    /\ Call(p, "delete_file_and_metadata", "none", {}, "", "")
    /\ worktree' = [worktree EXCEPT ![Artifact] = Absent]
    /\ Goto(p, "dl_meta")
    /\ UNCHANGED <<commits, head, origin, remote, index>>

\* lines 463-468: unlink the metadata record, return the list
DeleteMeta(p) ==
    /\ UNCHANGED <<notStore, lockState, calls, failed, op>>
    /\ pc[p] = "dl_meta"
    /\ worktree' = [worktree EXCEPT ![Meta] = Absent]
    /\ Goto(p, "done")
    /\ ret' = [ret EXCEPT ![p] = "None"]
    /\ UNCHANGED <<commits, head, origin, remote, index>>

\* ------------------------------------------------------------- checkin_file

\* checkin_file lines 414-417: save_file(file_path, file_content). The
\* content submitted is the one that goes with the next revision; op.content
\* keeps it, op.before the working copy as the call found it.
CallCheckinFile(p, message, author) ==
    /\ UNCHANGED <<notStore, lockState, failed>>
    /\ worktree[Meta] < MaxVal
    /\ boot.repo = "set"
    /\ pc[p] = "idle"
    /\ calls[p] < MaxCalls
    /\ calls' = [calls EXCEPT ![p] = @ + 1]
    /\ op' = [op EXCEPT ![p] = [NoCall EXCEPT !.kind = "checkin_file",
                                   !.paths = {Artifact, Meta},
                                   !.author = author, !.message = message,
                                   !.content = worktree[Meta] + 1,
                                   !.before = worktree]]
    /\ ret' = [ret EXCEPT ![p] = "none"]
    /\ worktree' = [worktree EXCEPT ![Artifact] = worktree[Meta] + 1]
    /\ Goto(p, "ci_read")
    /\ UNCHANGED <<commits, head, origin, remote, index>>

\* lines 420-428: current_rev from the metadata record ("0.0" without one)
CheckinReadMeta(p) ==
    /\ UNCHANGED <<notStore, lockState, calls, storeVars, failed, ret>>
    /\ pc[p] = "ci_read"
    /\ op' = [op EXCEPT ![p].rev = worktree[Meta]]
    /\ Goto(p, "ci_write")

\* lines 429-439: new_rev = _increment_revision(current_rev, 'minor'); write
\* the record; commit_and_push([file, meta], "REV new_rev: message", author)
CheckinWriteMeta(p) ==
    /\ UNCHANGED <<notStore, lockState, calls, failed, ret>>
    /\ pc[p] = "ci_write"
    /\ op[p].rev < MaxVal
    /\ worktree' = [worktree EXCEPT ![Meta] = op[p].rev + 1]
    /\ op' = [op EXCEPT ![p].kind = "commit_and_push",
                        ![p].phase = "publish",
                        ![p].via = "checkin_file",
                        ![p].rev = op[p].rev + 1]
    /\ Goto(p, "enter")
    /\ UNCHANGED <<commits, head, origin, remote, index>>

\* -------------------------------------------- AdminConfigService.save_config

\* save_config lines 159-169: write the configuration file
CallSaveConfig(p, v) ==
    /\ UNCHANGED <<notStore, lockState, failed>>
    /\ Call(p, "save_config", "none", {Other}, "system", "config")
    /\ worktree' = [worktree EXCEPT ![Other] = v]
    /\ Goto(p, "sc_add")
    /\ UNCHANGED <<commits, head, origin, remote, index>>

\* The GitCommandError of lines 183-186: logged, return True
ConfigError(p) ==
    /\ Goto(p, "done")
    /\ ret' = [ret EXCEPT ![p] = "True"]

\* line 175: repo.index.add([config_file_path]); the file may be gone again
SaveConfigAdd(p) ==
    /\ UNCHANGED <<notStore, lockState, calls, failed, op>>
    /\ pc[p] = "sc_add"
    /\ IF worktree[Other] = Absent
          THEN /\ Goto(p, "done")
               /\ ret' = [ret EXCEPT ![p] = "False"]
               /\ UNCHANGED index
          ELSE /\ index' = [index EXCEPT ![Other] = worktree[Other]]
               /\ Goto(p, "sc_commit")
               /\ UNCHANGED ret
    /\ UNCHANGED <<commits, head, origin, remote, worktree>>

\* lines 176-179: repo.index.commit("PDM Config: ...")
SaveConfigCommit(p) ==
    /\ UNCHANGED <<notStore, lockState, calls, failed>>
    /\ pc[p] = "sc_commit"
    /\ \/ /\ Len(commits) < MaxCommits
          /\ commits' = Append(commits, [parent |-> head, tree |-> index,
                                         author |-> op[p].author,
                                         message |-> op[p].message])
          /\ head' = Len(commits) + 1
          /\ op' = [op EXCEPT ![p].made = Len(commits) + 1]
          /\ Goto(p, "sc_push")
          /\ UNCHANGED ret
       \/ ConfigError(p) /\ UNCHANGED <<commits, head, op>>
    /\ UNCHANGED <<origin, remote, index, worktree>>

\* lines 180-189: origin.push(); return True
SaveConfigPush(p) ==
    /\ UNCHANGED <<notStore, lockState, calls, failed>>
    /\ pc[p] = "sc_push"
    /\ op' = [op EXCEPT ![p].pushes = 1]
    /\ \/ /\ IsAncestor(remote, head)
          /\ remote' = head
          /\ origin' = head
       \/ UNCHANGED <<remote, origin>>
    /\ ConfigError(p)
    /\ UNCHANGED <<commits, head, index, worktree>>

\* -------------------------------------------------------------- environment

\* Another workstation pushes a commit to the remote.
RemoteAdvance ==
    /\ UNCHANGED <<notStore, mutexVars>>
    /\ Len(commits) < MaxCommits
    /\ commits' = Append(commits,
                     [parent |-> remote,
                      tree |-> [Tree(remote) EXCEPT ![Other] = 1],
                      author |-> "other", message |-> "other"])
    /\ remote' = Len(commits) + 1
    /\ UNCHANGED <<head, origin, index, worktree>>

\* Time passes during a store run, up to MaxStoreTime.
Elapse ==
    /\ now + TickSeconds <= MaxStoreTime
    /\ Tick

\* The steps of commit_and_push and of the resynchronisation it falls back to
PublishStep(p) ==
    \/ StageAdd(p)
    \/ StageRemove(p)
    \/ CheckDirty(p)
    \/ Commit(p)
    \/ Push(p)
    \/ Fetch(p)
    \/ Reset(p)

\* Publishing: commit_and_push, pull_latest_changes, save_file, save_config
StoreStep(p) ==
    \/ \E paths \in PathLists, message \in Messages :
          CallCommitAndPush(p, paths, message, AuthorOf(p))
    \/ PublishStep(p)
    \/ CallPullLatestChanges(p)
    \/ SaveFile(p, 1)
    \/ CallSaveConfig(p, 1)
    \/ SaveConfigAdd(p)
    \/ SaveConfigCommit(p)
    \/ SaveConfigPush(p)

StoreNext ==
    \/ RemoteAdvance
    \/ Elapse
    \/ \E p \in Procs : MutexStep(p) \/ StoreStep(p)

\* Check-in and the other working copy operations: checkin_file,
\* delete_file_and_metadata, revert_local_file_changes, download_lfs_file
CheckinStep(p) ==
    \/ \E message \in Messages : CallCheckinFile(p, message, AuthorOf(p))
    \/ CheckinReadMeta(p)
    \/ CheckinWriteMeta(p)
    \/ PublishStep(p)
    \/ CallDeleteFileAndMetadata(p)
    \/ DeleteMeta(p)
    \/ CallRevertLocalFileChanges(p)
    \/ Checkout(p)
    \/ CallDownloadLfsFile(p)
    \/ LfsPull(p)
    \/ CallPullLatestChanges(p)

CheckinNext ==
    \/ Elapse
    \/ \E p \in Procs : MutexStep(p) \/ CheckinStep(p)

\* --------------------------------------------------- restart of the backend

\* No request is being served and no process has the mutex: the backend can
\* be restarted.
Quiet ==
    /\ \A c \in Clients : rpc[c] = "idle"
    /\ \A p \in Procs : pc[p] = "idle"
    /\ ~marker.exists

\* _init_repo lines 112-118 at a restart: the repository opens and has a
\* remote; it is returned as it is
InitRepoOpen ==
    /\ Quiet
    /\ UNCHANGED vars

\* _init_repo lines 119-123 and 107-110 at a restart: the repository does not
\* open or has no remote; _cleanup_corrupted_repo (lines 128-135) removes the
\* whole directory repo_path, the .locks directory of the registry with it
\* (MetadataManager.__init__ line 152), and the next attempt clones the remote
InitRepoRepair ==
    /\ Quiet
    /\ UNCHANGED <<mutexVars, bootVars, funVars, commits, remote>>
    /\ records' = [n \in LockNames |-> NoRecord]
    /\ granted' = [n \in LockNames |-> {}]
    /\ UNCHANGED <<rpc, rop, rres, orphan>>
    /\ head' = remote
    /\ origin' = remote
    /\ index' = Tree(remote)
    /\ worktree' = Tree(remote)

\* The registry calls of the user actions between restarts
RestartStep(c) ==
    \/ \E path \in ScanPaths, force \in BOOLEAN :
          CallCreateLock(c, path, IF force THEN Admin ELSE UserOf(c), force)
    \/ CreateLockCheck(c)
    \/ CreateLockOpen(c)
    \/ CreateLockWrite(c)
    \/ \E path \in ScanPaths : ReleaseLock(c, path)
    \/ \E path \in ScanPaths : CallGetLockInfo(c, path)
    \/ GetLockInfoExists(c)
    \/ GetLockInfoRead(c)
    \/ GetLockInfoUnlink(c)

RestartNext ==
    \/ RemoteAdvance
    \/ InitRepoOpen
    \/ InitRepoRepair
    \/ \E c \in Clients : RestartStep(c)

\* ------------------------------------- user actions (files.py and admin.py)
\* Each call of a service method is one step here; the steps of the methods
\* themselves are the actions above.

Handlers == {"checkin_file", "cancel_checkout", "admin_override_lock"}

\* What get_lock_info(path) returns: the holder of the record, or None
LockInfo(n) == IF Parses(n) THEN records[n].user ELSE "None"

\* A request arrives: checkin_file and cancel_checkout for the user of the
\* session, admin_override_lock for the administrator
CallHandler(c, kind, path) ==
    /\ UNCHANGED notRegistry
    /\ rpc[c] = "idle"
    /\ rpc' = [rpc EXCEPT ![c] = "h_check"]
    /\ rop' = [rop EXCEPT ![c] =
                  [NoOp EXCEPT !.kind = kind, !.path = path,
                               !.user = IF kind = "admin_override_lock"
                                           THEN Admin ELSE UserOf(c)]]
    /\ rres' = [rres EXCEPT ![c] = "none"]
    /\ UNCHANGED <<records, orphan, granted>>

\* files.py lines 163-166 and 218-221, admin.py lines 52-54: lock_info =
\* get_lock_info(file_path) and the test of the holder. admin_override_lock
\* keeps lock_info['user'] for the restore of line 69.
HolderCheck(c) ==
    /\ UNCHANGED notRegistry
    /\ rpc[c] = "h_check"
    /\ IF Exists(NameOf(c)) /\ ~Parses(NameOf(c))
          THEN Unlinked(NameOf(c))
          ELSE UNCHANGED <<records, orphan, granted>>
    /\ IF rop[c].kind = "admin_override_lock"
          THEN IF LockInfo(NameOf(c)) = "None"
                  THEN Return(c, "success")
                  ELSE /\ rpc' = [rpc EXCEPT ![c] = "ov_release"]
                       /\ rop' = [rop EXCEPT ![c].checked = TRUE,
                                             ![c].user = LockInfo(NameOf(c))]
                       /\ UNCHANGED rres
          ELSE IF LockInfo(NameOf(c)) # rop[c].user
                  THEN Return(c, "403")
                  ELSE /\ rpc' = [rpc EXCEPT ![c] =
                                     IF rop[c].kind = "checkin_file"
                                        THEN "ci_publish" ELSE "ca_release"]
                       /\ rop' = [rop EXCEPT ![c].checked = TRUE]
                       /\ UNCHANGED rres

\* commit_and_push as one step: it commits tree and pushes it and returns
\* True, or it fails, resynchronises with pull_latest_changes and returns
\* False (git_service.py lines 218-246).
PublishDone(ok, tree, author, message) ==
    IF ok
       THEN /\ Len(commits) < MaxCommits
            /\ head = remote
            /\ commits' = Append(commits, [parent |-> head, tree |-> tree,
                                           author |-> author,
                                           message |-> message])
            /\ head' = Len(commits) + 1
            /\ origin' = Len(commits) + 1
            /\ remote' = Len(commits) + 1
            /\ index' = tree
            /\ worktree' = tree
       ELSE /\ head' = remote
            /\ origin' = remote
            /\ index' = Tree(remote)
            /\ worktree' = Tree(remote)
            /\ UNCHANGED <<commits, remote>>

\* files.py lines 168-181: success = git_repo.checkin_file(...), which saves
\* the file, writes the next revision and publishes both; 500 on failure
CheckinPublish(c) ==
    /\ UNCHANGED <<mutexVars, bootVars, funVars>>
    /\ rpc[c] = "ci_publish"
    /\ worktree[Meta] < MaxVal
    /\ \E ok \in BOOLEAN :
          /\ PublishDone(ok, [index EXCEPT ![Artifact] = worktree[Meta] + 1,
                                           ![Meta] = worktree[Meta] + 1],
                         rop[c].user, "edit")
          /\ IF ok
                THEN /\ rpc' = [rpc EXCEPT ![c] = "ci_release"]
                     /\ rop' = [rop EXCEPT ![c].published = TRUE]
                     /\ UNCHANGED rres
                ELSE Return(c, "500")
    /\ UNCHANGED <<records, orphan, granted>>

\* files.py line 184: lock_manager.release_lock(file_path)
CheckinRelease(c) ==
    /\ UNCHANGED notRegistry
    /\ rpc[c] = "ci_release"
    /\ Unlinked(NameOf(c))
    /\ rpc' = [rpc EXCEPT ![c] = "ci_unlock"]
    /\ UNCHANGED <<rop, rres>>

\* files.py lines 185-192: commit_and_push of the lock file's path, its
\* result not looked at; return success
CheckinUnlock(c) ==
    /\ UNCHANGED <<mutexVars, bootVars, funVars>>
    /\ rpc[c] = "ci_unlock"
    /\ \E ok \in BOOLEAN : PublishDone(ok, index, rop[c].user, "unlock")
    /\ Return(c, "success")
    /\ UNCHANGED <<records, orphan, granted>>

\* files.py line 228: "Release the lock locally first"
CancelRelease(c) ==
    /\ UNCHANGED notRegistry
    /\ rpc[c] = "ca_release"
    /\ Unlinked(NameOf(c))
    /\ rpc' = [rpc EXCEPT ![c] = "ca_revert"]
    /\ UNCHANGED <<rop, rres>>

\* files.py line 231: revert_local_file_changes(file_path), checkout HEAD --
\* file; a failure is logged (git_service.py lines 441-450)
CancelRevert(c) ==
    /\ UNCHANGED <<mutexVars, bootVars, funVars>>
    /\ rpc[c] = "ca_revert"
    /\ \E ok \in BOOLEAN :
          worktree' = IF ok
                         THEN [worktree EXCEPT ![Artifact] = Tree(head)[Artifact]]
                         ELSE worktree
    /\ rpc' = [rpc EXCEPT ![c] = "ca_publish"]
    /\ UNCHANGED <<commits, head, origin, remote, index>>
    /\ UNCHANGED <<records, orphan, granted, rop, rres>>

\* files.py lines 234-245: commit_and_push of the lock file's path; 500 on
\* failure
CancelPublish(c) ==
    /\ UNCHANGED <<mutexVars, bootVars, funVars>>
    /\ rpc[c] = "ca_publish"
    /\ \E ok \in BOOLEAN :
          /\ PublishDone(ok, index, rop[c].user, "unlock")
          /\ Return(c, IF ok THEN "success" ELSE "500")
    /\ UNCHANGED <<records, orphan, granted>>

\* admin.py line 59: lock_manager.release_lock(file_path)
OverrideRelease(c) ==
    /\ UNCHANGED notRegistry
    /\ rpc[c] = "ov_release"
    /\ Unlinked(NameOf(c))
    /\ rpc' = [rpc EXCEPT ![c] = "ov_publish"]
    /\ UNCHANGED <<rop, rres>>

\* admin.py lines 61-71: commit_and_push of the lock file's path; on failure
\* create_lock(file_path, lock_info['user'], force=True) and 500
OverridePublish(c) ==
    /\ UNCHANGED <<mutexVars, bootVars, funVars>>
    /\ rpc[c] = "ov_publish"
    /\ \E ok \in BOOLEAN :
          /\ PublishDone(ok, index, Admin, "unlock")
          /\ IF ok
                THEN /\ UNCHANGED <<records, orphan, granted>>
                     /\ Return(c, "success")
                ELSE /\ records' = [records EXCEPT ![NameOf(c)] =
                                       [state |-> "ok", file |-> rop[c].path,
                                        user |-> rop[c].user]]
                     /\ orphan' = [d \in Clients |->
                                      orphan[d] \/ ( /\ rpc[d] = "cl_write"
                                                     /\ NameOf(d) = NameOf(c) )]
                     /\ granted' = [granted EXCEPT ![NameOf(c)] = {}]
                     /\ Return(c, "500")

\* The user actions are taken for one file.
HandlerPaths == { <<"a", ".", "m">> }

HandlerStep(c) ==
    \/ \E path \in HandlerPaths : CallCreateLock(c, path, UserOf(c), FALSE)
    \/ CreateLockCheck(c)
    \/ CreateLockOpen(c)
    \/ CreateLockWrite(c)
    \/ \E kind \in Handlers, path \in HandlerPaths :
          CallHandler(c, kind, path)
    \/ HolderCheck(c)
    \/ CheckinPublish(c)
    \/ CheckinRelease(c)
    \/ CheckinUnlock(c)
    \/ CancelRelease(c)
    \/ CancelRevert(c)
    \/ CancelPublish(c)
    \/ OverrideRelease(c)
    \/ OverridePublish(c)

HandlerNext == \E c \in Clients : HandlerStep(c)

\* ------------------------------------------------------- admin_delete_file

\* The administrator asks for the deletion of the file
CallAdminDeleteFile(c, path) ==
    /\ UNCHANGED notRegistry
    /\ rpc[c] = "idle"
    /\ rpc' = [rpc EXCEPT ![c] = "ad_find"]
    /\ rop' = [rop EXCEPT ![c] =
                  [NoOp EXCEPT !.kind = "admin_delete_file", !.path = path,
                               !.user = Admin]]
    /\ rres' = [rres EXCEPT ![c] = "none"]
    /\ UNCHANGED <<records, orphan, granted>>

\* admin.py lines 84-86: find_file_path(filename) looks in the tree of HEAD
\* (git_service.py lines 270-277); 404 if the file is not in it
AdminDeleteFind(c) ==
    /\ UNCHANGED notRegistry
    /\ rpc[c] = "ad_find"
    /\ IF Tree(head)[Artifact] = Absent
          THEN Return(c, "404")
          ELSE /\ rpc' = [rpc EXCEPT ![c] = "ad_check"]
               /\ UNCHANGED <<rop, rres>>
    /\ UNCHANGED <<records, orphan, granted>>

\* admin.py lines 88-90: 409 if get_lock_info(file_path) returns a record
AdminDeleteCheck(c) ==
    /\ UNCHANGED notRegistry
    /\ rpc[c] = "ad_check"
    /\ IF Exists(NameOf(c)) /\ ~Parses(NameOf(c))
          THEN Unlinked(NameOf(c))
          ELSE UNCHANGED <<records, orphan, granted>>
    /\ IF LockInfo(NameOf(c)) # "None"
          THEN Return(c, "409")
          ELSE /\ rpc' = [rpc EXCEPT ![c] = "ad_delete"]
               /\ rop' = [rop EXCEPT ![c].checked = TRUE]
               /\ UNCHANGED rres

\* admin.py line 92: delete_file_and_metadata(file_path) unlinks the file
\* and its metadata record and returns the paths that existed
\* (git_service.py lines 452-468)
AdminDeleteUnlink(c) ==
    /\ UNCHANGED <<mutexVars, bootVars, funVars>>
    /\ rpc[c] = "ad_delete"
    /\ worktree' = [worktree EXCEPT ![Artifact] = Absent, ![Meta] = Absent]
    /\ rpc' = [rpc EXCEPT ![c] = "ad_publish"]
    /\ rop' = [rop EXCEPT ![c].todo =
                  {path \in {Artifact, Meta} : worktree[path] # Absent}]
    /\ UNCHANGED rres
    /\ UNCHANGED <<commits, head, origin, remote, index>>
    /\ UNCHANGED <<records, orphan, granted>>

\* admin.py lines 94-104: commit_and_push(files_to_remove, ...); the paths
\* are removed from the index and the commit is pushed, or the publish fails,
\* the working copy is reset to the remote and the answer is 500
AdminDeletePublish(c) ==
    /\ UNCHANGED <<mutexVars, bootVars, funVars>>
    /\ rpc[c] = "ad_publish"
    /\ \/ /\ Len(commits) < MaxCommits
          /\ head = remote
          /\ LET tree == [path \in StorePaths |->
                             IF path \in rop[c].todo THEN Absent
                                                     ELSE index[path]]
             IN /\ commits' = Append(commits,
                                     [parent |-> head, tree |-> tree,
                                      author |-> Admin, message |-> "delete"])
                /\ index' = tree
          /\ head' = Len(commits) + 1
          /\ origin' = Len(commits) + 1
          /\ remote' = Len(commits) + 1
          /\ UNCHANGED worktree
          /\ Return(c, "success")
       \/ /\ PublishDone(FALSE, index, Admin, "delete")
          /\ Return(c, "500")
    /\ UNCHANGED <<records, orphan, granted>>

\* The deletion next to the checkout and the return of the same file
AdminDeleteStep(c) ==
    \/ \E path \in HandlerPaths : CallCreateLock(c, path, UserOf(c), FALSE)
    \/ CreateLockCheck(c)
    \/ CreateLockOpen(c)
    \/ CreateLockWrite(c)
    \/ \E path \in HandlerPaths : ReleaseLock(c, path)
    \/ \E path \in HandlerPaths : CallAdminDeleteFile(c, path)
    \/ AdminDeleteFind(c)
    \/ AdminDeleteCheck(c)
    \/ AdminDeleteUnlink(c)
    \/ AdminDeletePublish(c)

AdminDeleteNext == \E c \in Clients : AdminDeleteStep(c)

\* --------------------------------- the registry while the mutex is in use

\* The process that takes and releases the repository mutex while the
\* clients use the registry.
Publisher == 1

\* A caller's step in a registry whose create_lock waits while the marker exists
AlongsideStep_waits(c) ==
    \/ \E path \in HandlerPaths : CallCreateLock(c, path, UserOf(c), FALSE)
    \/ ~marker.exists /\ CreateLockCheck(c)
    \/ CreateLockOpen(c)
    \/ CreateLockWrite(c)
    \/ \E path \in HandlerPaths : ReleaseLock(c, path)
    \/ \E path \in HandlerPaths : CallGetLockInfo(c, path)
    \/ GetLockInfoExists(c)
    \/ GetLockInfoRead(c)
    \/ GetLockInfoUnlink(c)
    \/ CallGetAllLocks(c)
    \/ GetAllLocksRead(c)
    \/ GetAllLocksReturn(c)

\* MetadataManager lines 143-211: the four operations, for one path
AlongsideStep(c) ==
    \/ \E path \in HandlerPaths : CallCreateLock(c, path, UserOf(c), FALSE)
    \/ CreateLockCheck(c)
    \/ CreateLockOpen(c)
    \/ CreateLockWrite(c)
    \/ \E path \in HandlerPaths : ReleaseLock(c, path)
    \/ \E path \in HandlerPaths : CallGetLockInfo(c, path)
    \/ GetLockInfoExists(c)
    \/ GetLockInfoRead(c)
    \/ GetLockInfoUnlink(c)
    \/ CallGetAllLocks(c)
    \/ GetAllLocksRead(c)
    \/ GetAllLocksReturn(c)

\* The steps of __enter__ and __exit__ that one process takes when nobody
\* contends and no time passes
PublisherStep(p) ==
    \/ Acquire(p)
    \/ Enter(p)
    \/ LoopHead(p)
    \/ Create(p)
    \/ WriteInfo(p)
    \/ StaleExists(p)
    \/ StaleStat(p)
    \/ StaleRead(p)
    \/ StalePid(p)
    \/ Sleep(p)
    \/ Release(p)
    \/ Exit(p)
    \/ Finish(p)

AlongsideNext ==
    \/ PublisherStep(Publisher)
    \/ \E c \in Clients : AlongsideStep(c)

\* ------------------------------ GitRepository.__init__ and _init_repo

\* The process that is started; the other one is a backend that is running.
Booter == 1

max_retries == 3

NoTree == [path \in StorePaths |-> Absent]

\* boot.at is the position of the initialisation, boot.attempt the number of
\* attempts begun, boot.repo is self.repo ("unset" before the constructor has
\* assigned it, then "set" or "none"). dir: repo_path exists; git: repo_path
\* has a .git; sound: Repo(repo_path) opens ("invalid" when it raises
\* InvalidGitRepositoryError, "noremote" when it opens and repo.remotes is
\* empty). failures and recoveries count the attempts that failed and the runs
\* of _cleanup_corrupted_repo.
BootReady ==
    [at |-> "ready", attempt |-> 1, repo |-> "set", dir |-> TRUE, git |-> TRUE,
     sound |-> "ok", failures |-> 0, recoveries |-> 0]

\* main.py lines 132-142: MetadataManager has made repo_path/.locks before
\* GitRepository is constructed, so repo_path exists and is not empty; it has
\* a working copy from an earlier run, or none.
BootStates ==
    { [BootReady EXCEPT !.at = "loop", !.attempt = 0, !.repo = "unset",
                        !.git = g, !.sound = s] :
          g \in BOOLEAN, s \in {"ok", "invalid", "noremote"} }

BootInit ==
    /\ boot \in {b \in BootStates : b.git \/ b.sound = "ok"}
    /\ commits = << [parent |-> 0, tree |-> InitTree, author |-> "init",
                     message |-> "init"] >>
    /\ head = 1
    /\ origin = 1
    /\ remote = 1
    /\ index = IF boot.git THEN InitTree ELSE NoTree
    /\ worktree = IF boot.git THEN InitTree ELSE NoTree

\* _init_repo lines 104-106 and 125-126: the head of the loop; after
\* max_retries attempts return None. Lines 107-111: without repo_path or
\* without .git the attempt clones, else it opens under the mutex.
InitRepoAttempt ==
    /\ boot.at = "loop"
    /\ pc[Booter] = "idle"
    /\ UNCHANGED <<regVars, storeVars, funVars>>
    /\ IF boot.attempt = max_retries
          THEN /\ boot' = [boot EXCEPT !.at = "unavailable", !.repo = "none"]
               /\ UNCHANGED mutexVars
          ELSE IF ~boot.dir \/ ~boot.git
                  THEN /\ boot' = [boot EXCEPT !.at = "clone", !.attempt = @ + 1]
                       /\ UNCHANGED mutexVars
                  ELSE /\ boot' = [boot EXCEPT !.at = "open", !.attempt = @ + 1]
                       /\ pc' = [pc EXCEPT ![Booter] = "enter"]
                       /\ op' = [op EXCEPT ![Booter] =
                                    [NoCall EXCEPT !.kind = "_init_repo"]]
                       /\ ret' = [ret EXCEPT ![Booter] = "none"]
                       /\ UNCHANGED <<lockState, calls, failed>>

\* line 110: return Repo.clone_from(url, repo_path). git clones into a path
\* that does not exist (or is empty) when the remote answers; otherwise
\* GitCommandError, caught at line 119.
InitRepoClone ==
    /\ boot.at = "clone"
    /\ UNCHANGED <<mutexVars, regVars, funVars, commits, remote>>
    /\ \/ /\ ~boot.dir
          /\ boot' = [boot EXCEPT !.at = "ready", !.repo = "set",
                                  !.dir = TRUE, !.git = TRUE, !.sound = "ok"]
          /\ head' = remote
          /\ origin' = remote
          /\ index' = Tree(remote)
          /\ worktree' = Tree(remote)
       \/ /\ boot' = [boot EXCEPT !.at = "cleanup", !.failures = @ + 1]
          /\ UNCHANGED <<head, origin, index, worktree>>

\* The open without the test of repo.remotes
InitRepoValidate_any(p) ==
    /\ UNCHANGED <<notMutex, lockState, calls, ret>>
    /\ pc[p] = "held"
    /\ op[p].kind = "_init_repo"
    /\ IF boot.sound # "invalid"
          THEN /\ Goto(p, "exit")
               /\ op' = [op EXCEPT ![p].via = "return"]
               /\ UNCHANGED failed
          ELSE /\ Raise(p)
               /\ op' = [op EXCEPT ![p].via = "InvalidGitRepositoryError"]

\* lines 112-118, inside with self.lock_manager: repo = Repo(repo_path);
\* if repo.remotes: return repo; raise InvalidGitRepositoryError
InitRepoValidate(p) ==
    /\ UNCHANGED <<notMutex, lockState, calls, ret>>
    /\ pc[p] = "held"
    /\ op[p].kind = "_init_repo"
    /\ IF boot.sound = "ok"
          THEN /\ Goto(p, "exit")
               /\ op' = [op EXCEPT ![p].via = "return"]
               /\ UNCHANGED failed
          ELSE /\ Raise(p)
               /\ op' = [op EXCEPT ![p].via = "InvalidGitRepositoryError"]

\* What the with block of the open came to. It returned the repository
\* (line 116); or InvalidGitRepositoryError left it, caught at line 119; or
\* the TimeoutError of the mutex left __enter__: line 119 names
\* GitCommandError and InvalidGitRepositoryError only, so the TimeoutError
\* leaves _init_repo and the constructor, and self.repo is never assigned.
InitRepoOpened ==
    /\ boot.at = "open"
    /\ pc[Booter] = "done"
    /\ op[Booter].kind = "_init_repo"
    /\ UNCHANGED <<regVars, storeVars, funVars, lockState, calls, failed>>
    /\ pc' = [pc EXCEPT ![Booter] = "idle"]
    /\ op' = [op EXCEPT ![Booter] = NoCall]
    /\ ret' = [ret EXCEPT ![Booter] = "none"]
    /\ boot' = CASE ret[Booter] = "repo" ->
                       [boot EXCEPT !.at = "ready", !.repo = "set"]
                 [] op[Booter].via = "InvalidGitRepositoryError" ->
                       [boot EXCEPT !.at = "cleanup", !.failures = @ + 1]
                 [] OTHER ->
                       [boot EXCEPT !.at = "raised", !.failures = @ + 1]

\* lines 119-123 and 128-135: _cleanup_corrupted_repo, then sleep and the
\* next turn of the loop. _remove_git_locks unlinks every *.lock under .git,
\* the marker of the mutex among them; _force_remove_directory removes
\* repo_path with all it holds, or leaves it when the removal fails (rmtree
\* with an onerror handler that logs).
CleanupCorruptedRepo ==
    /\ boot.at = "cleanup"
    /\ UNCHANGED <<funVars, commits, head, origin, remote>>
    /\ UNCHANGED <<now, alive, pc, start_time, lock_file, pid, stale, attempt,
                   acquiredAt, overheld, diedHolding, callVars>>
    /\ UNCHANGED <<rpc, rop, rres, orphan>>
    /\ \/ /\ boot' = [boot EXCEPT !.at = "loop", !.recoveries = @ + 1,
                                  !.dir = FALSE, !.git = FALSE, !.sound = "ok"]
          /\ marker' = NoMarker
          /\ records' = [n \in LockNames |-> NoRecord]
          /\ granted' = [n \in LockNames |-> {}]
          /\ index' = NoTree
          /\ worktree' = NoTree
       \/ /\ boot' = [boot EXCEPT !.at = "loop", !.recoveries = @ + 1]
          /\ marker' = IF boot.git THEN NoMarker ELSE marker
          /\ UNCHANGED <<records, granted, index, worktree>>

\* ---- the store operations when self.repo is None

\* commit_and_push lines 219-220, download_lfs_file lines 258-259:
\* if not self.repo: return False. pull_latest_changes lines 207-208 and
\* revert_local_file_changes lines 443-444: return.
UnavailableGuarded(p) ==
    /\ boot.repo = "none"
    /\ pc[p] = "idle"
    /\ UNCHANGED <<notMutex, lockState, calls, failed>>
    /\ \E kind \in {"commit_and_push", "download_lfs_file",
                     "pull_latest_changes", "revert_local_file_changes"} :
          /\ op' = [op EXCEPT ![p] = [NoCall EXCEPT !.kind = kind]]
          /\ ret' = [ret EXCEPT ![p] =
                        IF kind \in {"commit_and_push", "download_lfs_file"}
                           THEN "False" ELSE "None"]
    /\ Goto(p, "done")

\* save_file lines 309-313 does not look at self.repo: it makes the parent
\* directories and writes the file
UnavailableSaveFile(p, v) ==
    /\ boot.repo = "none"
    /\ pc[p] = "idle"
    /\ UNCHANGED <<regVars, funVars, lockState, calls, failed>>
    /\ UNCHANGED <<commits, head, origin, remote, index>>
    /\ worktree' = [worktree EXCEPT ![Artifact] = v]
    /\ boot' = [boot EXCEPT !.dir = TRUE]
    /\ op' = [op EXCEPT ![p] = [NoCall EXCEPT !.kind = "save_file"]]
    /\ ret' = [ret EXCEPT ![p] = "None"]
    /\ Goto(p, "done")

\* checkin_file lines 414-439: save_file, the next revision is written to the
\* metadata record, then commit_and_push returns False (line 220)
UnavailableCheckinFile(p) ==
    /\ boot.repo = "none"
    /\ pc[p] = "idle"
    /\ worktree[Meta] < MaxVal
    /\ UNCHANGED <<regVars, funVars, lockState, calls, failed>>
    /\ UNCHANGED <<commits, head, origin, remote, index>>
    /\ worktree' = [worktree EXCEPT ![Artifact] = worktree[Meta] + 1,
                                    ![Meta] = worktree[Meta] + 1]
    /\ boot' = [boot EXCEPT !.dir = TRUE]
    /\ op' = [op EXCEPT ![p] = [NoCall EXCEPT !.kind = "checkin_file"]]
    /\ ret' = [ret EXCEPT ![p] = "False"]
    /\ Goto(p, "done")

\* delete_file_and_metadata lines 452-468: both files are unlinked when they
\* exist
UnavailableDeleteFileAndMetadata(p) ==
    /\ boot.repo = "none"
    /\ pc[p] = "idle"
    /\ UNCHANGED <<notStore, lockState, calls, failed>>
    /\ UNCHANGED <<commits, head, origin, remote, index>>
    /\ worktree' = [worktree EXCEPT ![Artifact] = Absent, ![Meta] = Absent]
    /\ op' = [op EXCEPT ![p] =
                 [NoCall EXCEPT !.kind = "delete_file_and_metadata"]]
    /\ ret' = [ret EXCEPT ![p] = "None"]
    /\ Goto(p, "done")

\* The process that is started initialises and then serves calls; the running
\* backend takes and gives back the mutex.
BootNext ==
    \/ Elapse
    \/ InitRepoAttempt
    \/ InitRepoClone
    \/ InitRepoValidate(Booter)
    \/ InitRepoOpened
    \/ CleanupCorruptedRepo
    \/ UnavailableGuarded(Booter)
    \/ \E v \in Vals \ {Absent} : UnavailableSaveFile(Booter, v)
    \/ UnavailableCheckinFile(Booter)
    \/ UnavailableDeleteFileAndMetadata(Booter)
    \/ \E p \in Procs \ {Booter} : Acquire(p) \/ Release(p)
    \/ \E p \in Procs : MutexStep(p)

\* ------------------------------------ _increment_revision and checkin_file
\* Strings are sequences of characters; None is a value of its own.

None == <<"None">>

Digits == <<"0", "1", "2", "3", "4", "5", "6", "7", "8", "9">>

\* A character that str.isdigit() takes for a digit and int() does not: the
\* superscript two (U+00B2), written here in ASCII
SuperscriptDigits == {"^2"}

IsDecimal(ch) == \E i \in DOMAIN Digits : Digits[i] = ch

IsDigit(ch) == IsDecimal(ch) \/ ch \in SuperscriptDigits

DigitVal(ch) == (CHOOSE i \in DOMAIN Digits : Digits[i] = ch) - 1

\* str.isdigit(): not empty and every character a digit
isdigit(str) == str # <<>> /\ \A i \in DOMAIN str : IsDigit(str[i])

\* Not empty and every character one of 0..9
isdecimal(str) == str # <<>> /\ \A i \in DOMAIN str : IsDecimal(str[i])

\* What stands for a ValueError that leaves the function
ValueError == <<"ValueError">>

\* The value of a string of digits
RECURSIVE DigitsVal(_)
DigitsVal(str) ==
    IF str = <<>> THEN 0
    ELSE 10 * DigitsVal(SubSeq(str, 1, Len(str) - 1)) + DigitVal(str[Len(str)])

\* int(str): an optional sign and digits; anything else raises ValueError
int(str) ==
    IF isdecimal(str) THEN [ok |-> TRUE, val |-> DigitsVal(str)]
    ELSE IF str # <<>> /\ str[1] \in {"-", "+"} /\ isdecimal(Tail(str))
            THEN [ok |-> TRUE,
                  val |-> IF str[1] = "-" THEN 0 - DigitsVal(Tail(str))
                                          ELSE DigitsVal(Tail(str))]
            ELSE [ok |-> FALSE, val |-> 0]

\* f"{n}" for an integer
RECURSIVE NatStr(_)
NatStr(n) ==
    IF n < 10 THEN <<Digits[n + 1]>>
    ELSE NatStr(n \div 10) \o <<Digits[(n % 10) + 1]>>

IntStr(n) == IF n < 0 THEN <<"-">> \o NatStr(0 - n) ELSE NatStr(n)

\* str.split('.')
RECURSIVE split(_)
split(str) ==
    IF \A i \in DOMAIN str : str[i] # "."
       THEN <<str>>
       ELSE LET k == CHOOSE i \in DOMAIN str :
                        str[i] = "." /\ \A j \in 1..(i - 1) : str[j] # "."
            IN  <<SubSeq(str, 1, k - 1)>> \o split(SubSeq(str, k + 1, Len(str)))

\* The parse with the major kept when int() raises on the minor
ParseRevision_keeps_major(current_rev) ==
    LET cur == IF current_rev \in {None, <<>>}
                  THEN <<"0", ".", "0">> ELSE current_rev
        parts == split(cur)
        major == int(parts[1])
        minor == IF Len(parts) > 1 THEN int(parts[2])
                                   ELSE [ok |-> TRUE, val |-> 0]
    IN  IF major.ok
           THEN [major |-> major.val, minor |-> IF minor.ok THEN minor.val ELSE 0]
           ELSE [major |-> 0, minor |-> 0]

\* _increment_revision lines 187-195: major and minor of current_rev; (0, 0)
\* when int() raises on either part
ParseRevision(current_rev) ==
    LET cur == IF current_rev \in {None, <<>>}
                  THEN <<"0", ".", "0">> ELSE current_rev
        parts == split(cur)
        major == int(parts[1])
        minor == IF Len(parts) > 1 THEN int(parts[2])
                                   ELSE [ok |-> TRUE, val |-> 0]
    IN  IF major.ok /\ minor.ok
           THEN [major |-> major.val, minor |-> minor.val]
           ELSE [major |-> 0, minor |-> 0]

\* The function with new_major_str looked at for every rev_type
increment_revision_explicit_first(current_rev, rev_type, new_major_str) ==
    LET rev == ParseRevision(current_rev)
    IN  IF new_major_str # None /\ isdigit(new_major_str)
           THEN IF int(new_major_str).ok
                   THEN IntStr(int(new_major_str).val) \o <<".", "0">>
                   ELSE ValueError
           ELSE IF rev_type = <<"m", "a", "j", "o", "r">>
                   THEN IntStr(rev.major + 1) \o <<".", "0">>
                   ELSE IntStr(rev.major) \o <<".">> \o IntStr(rev.minor + 1)

\* _increment_revision lines 186-202; the int() of line 199 is outside the
\* try of lines 191-195
increment_revision(current_rev, rev_type, new_major_str) ==
    LET rev == ParseRevision(current_rev)
    IN  IF rev_type = <<"m", "a", "j", "o", "r">>
           THEN IF new_major_str # None /\ isdigit(new_major_str)
                   THEN IF int(new_major_str).ok
                           THEN IntStr(int(new_major_str).val) \o <<".", "0">>
                           ELSE ValueError
                   ELSE IntStr(rev.major + 1) \o <<".", "0">>
           ELSE IntStr(rev.major) \o <<".">> \o IntStr(rev.minor + 1)

\* The revision strings a side-car record may hold: new_upload stores the
\* form field rev as it is given (files.py lines 316 and 466-471).
Revisions ==
    { <<>>,
      <<"0", ".", "0">>, <<"5", ".", "0">>, <<"5", ".", "1">>,
      <<"1", ".", "9">>, <<"9", ".", "1", "9">>, <<"5">>,
      <<"1", ".", "2", ".", "3">>, <<"A">>, <<"5", ".", "x">>,
      <<"x", ".", "5">>, <<"5", ".">>, <<"-", "3", ".", "2">> }

\* rev_type: 'major', and what stands for every other value
RevTypes == { <<"m", "a", "j", "o", "r">>, <<"m", "i", "n", "o", "r">>,
              <<"M", "a", "j", "o", "r">> }

\* new_major_rev: not given, empty, digits, not digits, a superscript digit
NewMajors == { None, <<>>, <<"5">>, <<"1", "2">>, <<"0", "7">>, <<"x">>,
               <<"-", "5">>, <<"5", ".", "5">>, <<"^2">> }

\* The side-car metadata record of the path: no file, a file that is not
\* JSON, a record without the "revision" key, a record with revision null,
\* a record with a revision string
MetaStates ==
    { [state |-> st, revision |-> None] :
          st \in {"absent", "garbled", "no_key", "null"} }
    \cup { [state |-> "record", revision |-> r] : r \in Revisions }

\* checkin_file lines 420-428: meta_content is {} without a file or when the
\* file does not parse; current_rev = meta_content.get("revision", "0.0")
current_rev(meta) ==
    IF meta.state \in {"absent", "garbled", "no_key"}
       THEN <<"0", ".", "0">>
       ELSE meta.revision

MaxCheckins == 2

\* A check-in is requested for the path.
CallCheckinRevision(rev_type, new_major_rev) ==
    /\ UNCHANGED <<mutexVars, regVars, storeVars, bootVars>>
    /\ arg.fn = "checkin_file"
    /\ arg.at = "idle"
    /\ arg.n < MaxCheckins
    /\ arg' = [arg EXCEPT !.at = "called", !.rev_type = rev_type,
                          !.new_major_rev = new_major_rev, !.n = @ + 1,
                          !.last = [rev_type |-> arg.rev_type,
                                    new_major_rev |-> arg.new_major_rev,
                                    current_rev |-> arg.current_rev,
                                    result |-> result]]
    /\ result' = None

\* checkin_file lines 420-432: the next revision is computed and written to
\* the record; nothing is written when _increment_revision raises
CheckinRevision ==
    /\ UNCHANGED <<mutexVars, regVars, storeVars, bootVars>>
    /\ arg.fn = "checkin_file"
    /\ arg.at = "called"
    /\ result' = increment_revision(current_rev(arg.meta), arg.rev_type,
                                    arg.new_major_rev)
    /\ arg' = [arg EXCEPT !.at = "idle",
                          !.current_rev = current_rev(arg.meta),
                          !.was = arg.meta.state,
                          !.meta = IF result' = ValueError
                                      THEN arg.meta
                                      ELSE [state |-> "record",
                                            revision |-> result']]

RevisionNext ==
    \/ \E rev_type \in RevTypes, new_major_rev \in NewMajors :
          CallCheckinRevision(rev_type, new_major_rev)
    \/ CheckinRevision

InitRevision ==
    /\ MutexInit /\ RegInit /\ StoreInit
    /\ boot = BootReady
    /\ arg \in { [fn |-> "checkin_file", at |-> "idle", meta |-> m,
                   rev_type |-> None, new_major_rev |-> None,
                   current_rev |-> None, was |-> "none", n |-> 0,
                   last |-> [rev_type |-> None, new_major_rev |-> None,
                             current_rev |-> None, result |-> None]] :
                 m \in MetaStates }
    /\ result = None

\* ------------------------------------------------------- is_lfs_pointer

\* The size above which is_lfs_pointer does not read the file
max_pointer_size == 200

\* 'version https://git-lfs', the argument of startswith
Signature ==
    << "v", "e", "r", "s", "i", "o", "n", " ", "h", "t", "t", "p", "s", ":",
       "/", "/", "g", "i", "t", "-", "l", "f", "s" >>

\* str.startswith(prefix)
startswith(str, prefix) ==
    /\ Len(str) >= Len(prefix)
    /\ SubSeq(str, 1, Len(prefix)) = prefix

\* How the content of a regular file may begin: with the signature, with
\* nothing, with all of the signature but its last character, with the
\* signature in another case, with a byte order mark before the signature,
\* with the header of an ordinary binary file
Heads ==
    { Signature,
      <<>>,
      SubSeq(Signature, 1, Len(Signature) - 1),
      <<"V">> \o Tail(Signature),
      <<"BOM">> \o Signature,
      <<"M", "C", "A", "M", "NUL">> }

\* st_size of the files looked at, in bytes
Sizes == {0, 22, 23, 24, 120, 199, 200, 201, 4096}

\* What may be at repo_path / file_path: nothing, a directory, or a regular
\* file of some size whose content begins with head; text says whether all of
\* its bytes decode, readable whether it can be opened for reading
NoFile == [kind |-> "missing", head |-> <<>>, size |-> 0,
           text |-> TRUE, readable |-> TRUE]

Files ==
    { NoFile, [NoFile EXCEPT !.kind = "directory", !.size = 4096] }
    \cup { f \in [kind : {"regular"}, head : Heads, size : Sizes,
                  text : BOOLEAN, readable : BOOLEAN] :
              /\ Len(f.head) <= f.size
              /\ f.size > 0 => f.head # <<>>
              /\ ~f.text => f.size > Len(f.head) }

\* Path.is_file()
is_file(f) == f.kind = "regular"

\* Path.read_text(): the decoded content, or an exception (PermissionError,
\* UnicodeDecodeError)
read_text(f) ==
    IF f.readable /\ f.text THEN [ok |-> TRUE, val |-> f.head]
                            ELSE [ok |-> FALSE, val |-> <<>>]

\* The function with the size compared by >=
is_lfs_pointer_strict(f) ==
    IF ~is_file(f) \/ f.size >= max_pointer_size
       THEN "False"
       ELSE IF read_text(f).ok /\ startswith(read_text(f).val, Signature)
               THEN "True" ELSE "False"

\* is_lfs_pointer lines 248-255
is_lfs_pointer(f) ==
    IF ~is_file(f) \/ f.size > max_pointer_size
       THEN "False"
       ELSE IF read_text(f).ok
               THEN IF startswith(read_text(f).val, Signature)
                       THEN "True" ELSE "False"
               ELSE "False"

\* download_file asks whether the file at the path is a pointer
\* (files.py line 259).
CallIsLfsPointer ==
    /\ UNCHANGED <<mutexVars, regVars, storeVars, bootVars>>
    /\ arg.fn = "is_lfs_pointer"
    /\ arg.at = "idle"
    /\ arg' = [arg EXCEPT !.at = "called"]
    /\ result' = "none"

\* is_lfs_pointer returns.
IsLfsPointer ==
    /\ UNCHANGED <<mutexVars, regVars, storeVars, bootVars>>
    /\ arg.fn = "is_lfs_pointer"
    /\ arg.at = "called"
    /\ result' = is_lfs_pointer(arg.file)
    /\ arg' = [arg EXCEPT !.at = "idle"]

\* Between two calls the file at the path is written, replaced or removed
\* (save_file, a pull, a user of the working copy).
WriteFile(f) ==
    /\ UNCHANGED <<mutexVars, regVars, storeVars, bootVars>>
    /\ arg.fn = "is_lfs_pointer"
    /\ arg.at = "idle"
    /\ f # arg.file
    /\ arg' = [arg EXCEPT !.file = f]
    /\ result' = "none"

LfsNext ==
    \/ CallIsLfsPointer
    \/ IsLfsPointer
    \/ \E f \in Files : WriteFile(f)

InitLfs ==
    /\ MutexInit /\ RegInit /\ StoreInit
    /\ boot = BootReady
    /\ arg \in { [fn |-> "is_lfs_pointer", at |-> "idle", file |-> f] :
                 f \in Files }
    /\ result = "none"

Init ==
    /\ MutexInit /\ RegInit /\ StoreInit
    /\ boot = BootReady
    /\ arg = NoArg
    /\ result = "none"

InitBoot ==
    /\ MutexInit /\ RegInit /\ BootInit
    /\ arg = NoArg
    /\ result = "none"

SpecMutex == Init /\ [][MutexNext]_vars

SpecRegistry == Init /\ [][RegNext]_vars

SpecStore == Init /\ [][StoreNext]_vars

SpecScan == Init /\ [][ScanNext]_vars
SpecRestart == Init /\ [][RestartNext]_vars
SpecHandlers == Init /\ [][HandlerNext]_vars
SpecBoot == InitBoot /\ [][BootNext]_vars
SpecAlongside == Init /\ [][AlongsideNext]_vars
SpecAdminDelete == Init /\ [][AdminDeleteNext]_vars

SpecRevision == InitRevision /\ [][RevisionNext]_vars
SpecLfs == InitLfs /\ [][LfsNext]_vars
SpecCheckin == Init /\ [][CheckinNext]_vars

\* ------------------------------------------------------------------ claims

\* C1: provided no holder has died while holding and no holder has kept the
\* mutex longer than the 300 s age ceiling, no two callers are at the same
\* time between a successful acquire() and their release().
C1_MutualExclusion ==
    (~diedHolding /\ ~overheld) => Cardinality(Holders) <= 1

\* C2: of the non-forced create_lock calls that race on a path without a
\* record, at most one is told success, and the record stored afterwards
\* names the user of that call.
C2_OneWinner ==
    \A path \in Paths :
        LET won == {g \in granted[LockName(path)] : g[3] = path} IN
        /\ Cardinality(won) <= 1
        /\ \A g \in won :
              records[LockName(path)].state = "ok"
                  => records[LockName(path)].user = g[2]

\* C3: while a commit_and_push is between its first staging step and the end
\* of its push, no other process executes a step of a git-mutating operation
\* (stage, commit, push, fetch, reset, checkout, lfs pull) on the working copy.
C3_NoInterleaving ==
    [][LET MidPublish(p) ==
               /\ op[p].kind = "commit_and_push"
               /\ op[p].phase = "publish"
               /\ pc[p] \in {"cp_remove", "cp_dirty", "cp_commit", "cp_push"}
           AtGitStep(q) ==
               \/ pc[q] = "held" /\ op[q].kind # "with"
               \/ pc[q] \in {"cp_remove", "cp_commit", "cp_push", "pl_reset",
                             "sc_add", "sc_commit", "sc_push"}
       IN  \A p, q \in Procs :
               (p # q /\ MidPublish(p) /\ AtGitStep(q))
                   => (pc'[q] = pc[q] \/ pc'[q] = "dead")]_vars

\* C4: every step that writes into the working copy directory is taken by a
\* process that holds the repository mutex.
C4_WritesUnderMutex ==
    [][worktree' # worktree
          => \E p \in Procs : pc'[p] # pc[p] /\ Holding(p)]_vars

\* C5: when commit_and_push has returned failure (no acquisition has had to
\* wait, and no other process has done more than save a file), the local
\* branch is the remote-tracking commit, a commit the remote has, and the
\* index is its tree.
C5_FailureResyncs ==
    \A p \in Procs :
        ( /\ pc[p] = "done"
          /\ op[p].kind = "commit_and_push"
          /\ ret[p] = "False"
          /\ now = 0
          /\ \A q \in Procs \ {p} :
                \/ calls[q] = 0
                \/ pc[q] = "done" /\ op[q].kind = "save_file" )
        => /\ head = origin
           /\ IsAncestor(head, remote)
           /\ index = Tree(head)

\* C6: a commit_and_push whose listed paths are all as in the last commit
\* creates no commit and performs no push, whatever the rest of the working
\* copy looks like.
C6_NoOpPublish ==
    \A p \in Procs :
        ( /\ pc[p] = "done"
          /\ op[p].kind = "commit_and_push"
          /\ op[p].unchanged )
        => op[p].made = 0 /\ op[p].pushes = 0

\* C7: when commit_and_push has returned success after creating a commit
\* (and no other process has done more than save a file), that commit carries the
\* given author and message and is on the remote.
C7_SuccessMeansPushed ==
    \A p \in Procs :
        ( /\ pc[p] = "done"
          /\ op[p].kind = "commit_and_push"
          /\ ret[p] = "True"
          /\ op[p].made # 0
          /\ \A q \in Procs \ {p} :
                \/ calls[q] = 0
                \/ pc[q] = "done" /\ op[q].kind = "save_file" )
        => /\ commits[op[p].made].author = op[p].author
           /\ commits[op[p].made].message = op[p].message
           /\ IsAncestor(op[p].made, remote)

\* C8: during and after a check-in, the content of the artifact and the
\* revision of its metadata record go together, in the working copy (what
\* get_file_content reads) and in every commit.
C8_ContentWithRevision ==
    LET Coupled(tree) ==
            (tree[Artifact] # Absent /\ tree[Meta] # Absent)
                => tree[Artifact] = tree[Meta]
    IN  (\E p \in Procs :
            op[p].kind = "checkin_file" \/ op[p].via = "checkin_file")
            => /\ Coupled(worktree)
               /\ \A c \in 1..Len(commits) : Coupled(Tree(c))

\* C9: a contender's force-break never removes the marker of a live holder
\* whose marker is within the age ceiling, and never terminates that holder.
C9_OnlyStaleBroken ==
    [][\A p \in Procs :
          LET q == marker.owner IN
          ( /\ marker.exists
            /\ q # p
            /\ alive[q]
            /\ Holding(q)
            /\ now - marker.mtime <= max_lock_age_seconds
            /\ pc[p] \in {"fb_terminate", "fb_unlink"}
            /\ pc'[p] # pc[p]
            /\ alive'[p] )
          => (marker'.exists /\ alive'[q])]_vars

C11_TimeoutLeavesMarker ==
    \A p, q \in Procs :
        ( /\ pc[p] = "timeout"
          /\ q # p
          /\ ~diedHolding /\ ~overheld
          /\ alive[q]
          /\ Holding(q)
          /\ now - acquiredAt[q] <= max_lock_age_seconds )
        => OwnsMarker(q)

\* C12: when a store operation that acquires the mutex has returned, no
\* marker created by it is at the path.
C12_MarkerRemoved ==
    \A p \in Procs :
        ( /\ pc[p] = "done"
          /\ op[p].kind \in {"commit_and_push", "pull_latest_changes",
                             "download_lfs_file", "revert_local_file_changes"} )
        => ~OwnsMarker(p)

\* C13: when the acquisition of the mutex times out and the store operation
\* returns, it gives its caller a result that is none of the results it gives
\* for its other outcomes.
C13_TimeoutReported ==
    [][\A p \in Procs :
          (pc[p] = "timeout" /\ pc'[p] = "done")
              => ret'[p] \notin {"True", "False", "None"}]_vars

\* C14: when a record written by a forced create_lock(p, admin) is at the
\* path and no other call is in progress, a non-forced create_lock(p, user)
\* is not refused.
C14_CheckoutAfterForce ==
    [][\A c \in Clients :
          ( /\ rpc[c] = "cl_check"
            /\ ~rop[c].force
            /\ records[NameOf(c)].state = "ok"
            /\ records[NameOf(c)].file = rop[c].path
            /\ records[NameOf(c)].user = Admin
            /\ \A d \in Clients \ {c} : rpc[d] = "idle"
            /\ rpc'[c] # rpc[c] )
          => rpc'[c] = "cl_open"]_vars

\* C15: a release_lock(p) leaves no record for p and leaves the record of
\* every other path as it was.
C15_ReleaseIdempotent ==
    [][\A c \in Clients, path \in Paths :
          ReleaseLock(c, path)
              => /\ records'[LockName(path)].state = "absent"
                 /\ \A q \in Paths \ {path} :
                       records[LockName(q)].file = q
                           => records'[LockName(q)] = records[LockName(q)]]_vars

C17_ScanSkipsCorrupted ==
    [][\A c \in Clients :
          rpc[c] = "ga_loop" =>
              /\ rres'[c] = "raised" => \E n \in rop[c].todo : ~Exists(n)
              /\ ( rpc'[c] = "ga_loop" /\ rop'[c] # rop[c] ) =>
                    \E n \in rop[c].todo :
                        /\ rop'[c].todo = rop[c].todo \ {n}
                        /\ rop'[c].found =
                              IF records[n].state = "ok"
                                 THEN rop[c].found \cup {n}
                                 ELSE rop[c].found]_vars

\* C18: a non-forced create_lock(p) is refused on a well-formed record only
\* when that record is the record of p, and no step of a create_lock or
\* get_lock_info on p changes the well-formed record of another path q.
C18_PathsIndependent ==
    [][\A c \in Clients :
          /\ ( /\ rpc[c] = "cl_check" /\ ~rop[c].force
               /\ records[NameOf(c)].state = "ok"
               /\ rpc'[c] = "idle" /\ rres'[c] = "None" )
                => records[NameOf(c)].file = rop[c].path
          /\ ( rpc[c] # "idle" /\ rpc'[c] # rpc[c] )
                => \A q \in Paths \ {rop[c].path} :
                      ( /\ records[LockName(q)].state = "ok"
                        /\ records[LockName(q)].file = q )
                          => records'[LockName(q)] = records[LockName(q)]]_vars

\* C19: a well-formed checkout record is removed or changed only by a
\* release_lock for its path (check-in, cancel, override) or by a forced
\* create_lock for its path.
C19_RecordPersists ==
    [][\A n \in LockNames :
          ( records[n].state = "ok" /\ records'[n] # records[n] )
              => \E c \in Clients :
                    \/ ReleaseLock(c, records[n].file)
                    \/ /\ rpc[c] = "cl_open" /\ rpc'[c] = "cl_write"
                       /\ rop[c].force
                       /\ rop[c].path = records[n].file]_vars

\* C20: in checkin_file, cancel_checkout and admin_override_lock the first
\* publish completes only after the holder check has passed, and the record
\* is released only after a publish of the action has completed.
C20_CheckPublishRelease ==
    [][\A c \in Clients :
          rop[c].kind \in Handlers =>
              /\ ( rop'[c].kind = rop[c].kind
                   /\ rop'[c].published /\ ~rop[c].published )
                    => rop[c].checked
              /\ ( /\ rpc'[c] # rpc[c]
                   /\ Exists(NameOf(c))
                   /\ Parses(NameOf(c))
                   /\ records'[NameOf(c)].state = "absent" )
                    => rop[c].published]_vars

\* C21: the initialisation begins at most 3 attempts; it has ended only as
\* Ready with the repository set or, after 3 failed attempts, as unavailable
\* with no repository; and an attempt begins only when every failed attempt
\* before it has been followed by the recovery.
C21_BoundedInit ==
    [][/\ boot'.attempt <= max_retries
       /\ boot'.at \notin {"loop", "clone", "open", "cleanup"}
             => \/ boot'.at = "ready" /\ boot'.repo = "set"
                \/ /\ boot'.at = "unavailable" /\ boot'.repo = "none"
                   /\ boot'.failures = max_retries
       /\ boot'.attempt # boot.attempt
             => boot.recoveries = boot.failures]_vars

\* C22: while the store is unavailable no operation changes the working copy
\* or makes a commit, and none reports success.
C22_UnavailableWritesNothing ==
    [][boot.repo = "none"
          => /\ worktree' = worktree
             /\ commits' = commits
             /\ \A p \in Procs : ret'[p] # "True"]_vars

\* C23: no failure of the clone or of the open leaves the initialisation; each
\* one is counted and followed by the recovery.
C23_FailuresRecovered ==
    [][boot'.failures # boot.failures => boot'.at = "cleanup"]_vars

\* C24: the store is Ready only with a working copy that opens and has a
\* remote, and it becomes Ready only from a clone or an open that returned the
\* repository.
C24_ReadyVerified ==
    [][/\ boot'.at = "ready"
          => boot'.repo = "set" /\ boot'.git /\ boot'.sound = "ok"
       /\ ( boot'.at = "ready" /\ boot.at # "ready" )
          => /\ boot'.failures = boot.failures
             /\ \/ boot.at = "clone"
                \/ boot.at = "open" /\ ret[Booter] = "repo"]_vars

\* The store has become Ready on the open of an existing working copy, ...
C24_WitnessOpen ==
    /\ boot.at = "ready" /\ boot.recoveries = 0 /\ boot.attempt = 1

\* ... and on a clone that followed a recovery.
C24_Witness ==
    /\ boot.at = "ready" /\ boot.recoveries > 0

\* C25: a major bump returns 'M.0': M is the value of the explicit major when
\* one is given and is a string of the digits 0..9, and the major of the
\* current revision plus one when none is given or the given one is not taken
\* for a number; ('0.0', 'major', '5') gives '5.0' and ('5.1', 'major') gives
\* '6.0'.
C25_MajorBump ==
    ( arg.fn = "checkin_file" /\ arg.at = "idle" /\ arg.n > 0
      /\ arg.rev_type = <<"m", "a", "j", "o", "r">> )
    => /\ result # ValueError
       /\ Len(split(result)) = 2 /\ split(result)[2] = <<"0">>
       /\ ( arg.new_major_rev # None /\ isdecimal(arg.new_major_rev) )
             => split(result)[1] = IntStr(DigitsVal(arg.new_major_rev))
       /\ ( arg.new_major_rev = None \/ ~isdigit(arg.new_major_rev) )
             => split(result)[1]
                   = IntStr(ParseRevision(arg.current_rev).major + 1)
       /\ ( arg.current_rev = <<"0", ".", "0">>
            /\ arg.new_major_rev = <<"5">> )
             => result = <<"5", ".", "0">>
       /\ ( arg.current_rev = <<"5", ".", "1">>
            /\ arg.new_major_rev = None )
             => result = <<"6", ".", "0">>

\* C26: a bump of any kind other than 'major' returns the major of the
\* current revision, a dot and its minor plus one, whatever the explicit major
\* is; ('5.0', 'minor') gives '5.1'.
C26_MinorBump ==
    ( arg.fn = "checkin_file" /\ arg.at = "idle" /\ arg.n > 0
      /\ arg.rev_type # <<"m", "a", "j", "o", "r">> )
    => /\ split(result) = << IntStr(ParseRevision(arg.current_rev).major),
                             IntStr(ParseRevision(arg.current_rev).minor + 1) >>
       /\ arg.current_rev = <<"5", ".", "0">> => result = <<"5", ".", "1">>

\* A minor bump of '5.0' that was given an explicit major has returned.
C26_Witness ==
    /\ arg.fn = "checkin_file" /\ arg.at = "idle" /\ arg.n > 0
    /\ arg.rev_type = <<"m", "i", "n", "o", "r">>
    /\ arg.current_rev = <<"5", ".", "0">>
    /\ arg.new_major_rev = <<"1", "2">>
    /\ result = <<"5", ".", "1">>

\* C27: a major bump of any revision with any explicit major returns, and the
\* minor bump of what it returned returns 'M.1', M being the major of what the
\* major bump returned.
C27_MajorThenMinor ==
    ( arg.fn = "checkin_file" /\ arg.at = "idle" /\ arg.n > 1
      /\ arg.last.rev_type = <<"m", "a", "j", "o", "r">>
      /\ arg.rev_type = <<"m", "i", "n", "o", "r">> )
    => /\ arg.last.result # ValueError
       /\ arg.current_rev = arg.last.result
       /\ result = split(arg.last.result)[1] \o <<".", "1">>

C28_WitnessAbsent ==
    /\ arg.fn = "checkin_file" /\ arg.at = "idle" /\ arg.n = 1
    /\ arg.was = "absent"
    /\ arg.rev_type = <<"m", "i", "n", "o", "r">>
    /\ arg.meta.revision = <<"0", ".", "1">>

\* C29: after every check-in the revision stored in the metadata record is
\* 'MAJOR.MINOR' with two strings of digits, and MINOR is '0' after a major
\* bump.
C29_RevisionWellFormed ==
    ( arg.fn = "checkin_file" /\ arg.at = "idle" /\ arg.n > 0
      /\ result # ValueError )
    => /\ Len(split(arg.meta.revision)) = 2
       /\ isdigit(split(arg.meta.revision)[1])
       /\ isdigit(split(arg.meta.revision)[2])
       /\ arg.rev_type = <<"m", "a", "j", "o", "r">>
             => split(arg.meta.revision)[2] = <<"0">>

\* C30 as stated: is_lfs_pointer is true exactly when the path is a regular
\* file whose size is below the threshold of 200 bytes and whose content
\* begins with the signature.
C30_BelowThreshold ==
    ( arg.fn = "is_lfs_pointer" /\ arg.at = "idle" /\ result # "none" )
    => ( result = "True"
         <=> /\ arg.file.kind = "regular"
             /\ arg.file.size < max_pointer_size
             /\ startswith(arg.file.head, Signature) )

\* C30, amended: is_lfs_pointer is true exactly when the path is a regular
\* file of at most 200 bytes that can be read and decoded as text and whose
\* text begins with the signature; it is false for a 4KB ordinary binary
\* file, a missing file and a file of more than 200 bytes that begins with the
\* signature, and true for a 120-byte text file that begins with it.
C30_IsLfsPointer ==
    ( arg.fn = "is_lfs_pointer" /\ arg.at = "idle" /\ result # "none" )
    => /\ result \in {"True", "False"}
       /\ result = "True"
             <=> /\ arg.file.kind = "regular"
                 /\ arg.file.size <= max_pointer_size
                 /\ arg.file.readable /\ arg.file.text
                 /\ startswith(arg.file.head, Signature)
       /\ ( arg.file.kind = "regular" /\ arg.file.size = 4096
            /\ arg.file.head = <<"M", "C", "A", "M", "NUL">> )
             => result = "False"
       /\ arg.file.kind = "missing" => result = "False"
       /\ ( arg.file.kind = "regular" /\ arg.file.size > max_pointer_size
            /\ arg.file.head = Signature ) => result = "False"
       /\ ( arg.file.kind = "regular" /\ arg.file.size = 120
            /\ arg.file.head = Signature
            /\ arg.file.readable /\ arg.file.text ) => result = "True"

\* is_lfs_pointer has returned True for a file of exactly 200 bytes.
C30_Witness ==
    /\ arg.fn = "is_lfs_pointer" /\ arg.at = "idle"
    /\ arg.file.kind = "regular" /\ arg.file.size = max_pointer_size
    /\ result = "True"

\* C31: when a check-in or a cancel is requested for a path by a user whom
\* the checkout record of the path does not name as its holder (or there is no
\* record), the holder check answers 403 and the step changes neither the
\* checkout records nor the working copy nor the commits.
C31_NonHolderRejected ==
    [][\A c \in Clients :
          ( /\ rpc[c] = "h_check" /\ rpc'[c] # "h_check"
            /\ rop[c].kind \in {"checkin_file", "cancel_checkout"}
            /\ LockInfo(NameOf(c)) # rop[c].user )
          => /\ rres'[c] = "403"
             /\ records' = records
             /\ worktree' = worktree /\ index' = index
             /\ commits' = commits /\ head' = head /\ remote' = remote]_vars

\* C32: a release removes the marker only if the releasing caller created it:
\* when __exit__ of p removes the marker that is at the path, it is p's, and
\* no other caller is inside its critical section under that marker.
C32_ReleaseOwnMarker ==
    [][\A p \in Procs :
          ( /\ pc[p] = "exit" /\ pc'[p] # "exit"
            /\ marker.exists /\ ~marker'.exists )
          => /\ marker.owner = p
             /\ \A q \in Procs \ {p} : ~(InCS(q) /\ OwnsMarker(q))]_vars

\* C33: when a check-in has returned success it has created a commit that
\* holds the submitted content of the artifact and the incremented revision
\* in the metadata record, and that commit is on the remote, whatever the
\* other process has done in the meantime.
C33_CheckinPublished ==
    \A p \in Procs :
        ( /\ pc[p] = "done"
          /\ op[p].via = "checkin_file"
          /\ ret[p] = "True" )
        => /\ op[p].made # 0
           /\ Tree(op[p].made)[Artifact] = op[p].content
           /\ Tree(op[p].made)[Meta] = op[p].rev
           /\ IsAncestor(op[p].made, remote)

\* C34: the commit that commit_and_push creates differs from its parent at
\* listed paths only, and a listed path that was not on disk when the paths
\* were staged is absent from it.
C34_CommitOnlyListed ==
    [][\A p \in Procs :
          ( /\ InPublishAt(p, "cp_commit")
            /\ pc'[p] = "cp_push" )
          => /\ commits'[Len(commits')].parent = head
             /\ \A path \in StorePaths \ op[p].paths :
                   commits'[Len(commits')].tree[path] = Tree(head)[path]
             /\ \A path \in op[p].to_remove :
                   commits'[Len(commits')].tree[path] = Absent]_vars

\* C35: when a check-in has returned failure, the artifact and the revision of
\* its metadata record in the working copy are what they were before the call
\* (no other process having run an operation), so that a retry computes the
\* same revision.
C35_FailedCheckinRestores ==
    \A p \in Procs :
        ( /\ pc[p] = "done"
          /\ op[p].via = "checkin_file"
          /\ ret[p] = "False"
          /\ \A q \in Procs \ {p} : calls[q] = 0 )
        => /\ worktree[Artifact] = op[p].before[Artifact]
           /\ worktree[Meta] = op[p].before[Meta]

\* C36: when the publish of a cancel or of an administrative override has
\* failed, the action returns with the checkout record of the path naming the
\* holder it named when the action began.
C36_FailedUnlockKeepsRecord ==
    [][\A c \in Clients :
          ( /\ rpc[c] \in {"ca_publish", "ov_publish"}
            /\ rpc'[c] = "idle"
            /\ rres'[c] = "500" )
          => /\ records'[NameOf(c)].state = "ok"
             /\ records'[NameOf(c)].user = rop[c].user]_vars

\* C37: force_break_lock tries the removal at most max_break_attempts times,
\* and when the last try has failed with the marker still at the path,
\* __enter__ does not go on as it does after a removal (back to the head of
\* its loop): the failure leaves acquire().
C37_BreakFailureSurfaced ==
    [][\A p \in Procs :
          /\ attempt'[p] <= max_break_attempts - 1
          /\ ( /\ pc[p] = "fb_unlink" /\ pc'[p] # "fb_unlink"
               /\ attempt[p] = max_break_attempts - 1
               /\ marker.exists /\ marker' = marker )
             => pc'[p] # "loop"]_vars

\* C38: no step of a registry operation changes the state of the repository
\* mutex (marker, handles, positions of the processes that use it), and a
\* registry operation that has begun can always take its next step, whether
\* or not the marker exists and whoever holds the mutex.
C38_RegistryLeavesMutex ==
    [][/\ regVars' # regVars => mutexVars' = mutexVars
       /\ \A c \in Clients : rpc[c] # "idle" => ENABLED AlongsideStep(c)
       /\ \A c \in Clients : rpc[c] = "idle" =>
             \A path \in HandlerPaths :
                /\ ENABLED CallCreateLock(c, path, UserOf(c), FALSE)
                /\ ENABLED ReleaseLock(c, path)
                /\ ENABLED CallGetLockInfo(c, path)
                /\ ENABLED CallGetAllLocks(c)]_vars

\* While the publisher is inside its critical section under its own marker,
\* one caller is in the middle of create_lock and the other has been given
\* the list of all checkouts.
C38_Witness ==
    /\ InCS(Publisher) /\ OwnsMarker(Publisher)
    /\ \E c, d \in Clients : rpc[c] = "cl_write" /\ rres[d] = "list"

\* C39: a process that is acquiring the mutex for a store operation (from
\* the start of __enter__ to the creation of its marker, the staleness test
\* and the forced break included) neither holds the mutex nor finds its own
\* marker at the path; in particular the resynchronization of a failed
\* commit_and_push starts after the publish has released the mutex.
C39_NoSelfAcquire ==
    \A p \in Procs :
        ( /\ op[p].kind \in {"commit_and_push", "pull_latest_changes"}
          /\ pc[p] \in {"enter", "loop", "create", "stale_exists",
                        "stale_stat", "stale_read", "stale_pid", "sleep",
                        "fb_kill", "fb_terminate", "fb_unlink"} )
        => /\ ~Holding(p)
           /\ ~OwnsMarker(p)

\* C40: the step of admin_delete_file that removes the artifact from the
\* working copy is taken only while no checkout record exists for the path,
\* and a request that finds a record is answered 409 and changes neither
\* the registry nor the repository.
C40_NoDeleteWhileCheckedOut ==
    [][\A c \in Clients :
          /\ ( /\ rpc[c] = "ad_delete" /\ rpc'[c] # "ad_delete"
               /\ worktree[Artifact] # Absent
               /\ worktree'[Artifact] = Absent )
             => LockInfo(NameOf(c)) = "None"
          /\ ( /\ rpc[c] = "ad_check" /\ rpc'[c] # "ad_check"
               /\ LockInfo(NameOf(c)) # "None" )
             => /\ rres'[c] = "409"
                /\ records' = records
                /\ storeVars' = storeVars]_vars

====
